---- MODULE Spec2Model ----
(***************************************************************************)
(* Funnel Transformer (modeling_funnel.py): the attention-input builder,   *)
(* the pooling operators, the relative-shift gather and the encoder /      *)
(* decoder orchestration, modelled on index level.  A tensor is modelled   *)
(* by its sequence axis (and, for matrices, by rows of columns); a hidden  *)
(* state position is modelled by the set of input positions pooled into it.*)
(***************************************************************************)
EXTENDS Integers, Sequences, FiniteSets, TLC

\* ------------------------------------------------------------------ bounds
MaxSeqLen == 9
MaxBlocks == 3
MaxBlockSize == 2
MaxRepeat == 2
MaxDecoderLayers == 2
MaxGatherLen == 4
MaxPoolLen == 5
MaxIdsLen == 5
MaxBatch == 1
MaxCallLen == 2
MaxNumLabels == 2
MaxQALen == 3
MaxOutside == 2
MaxItems == 2
RecursionLimit == 4
MaxMaskLen == 5

\* ------------------------------------------------------------ conventions
\* Python's None
None == << >>

Min2(a, b) == IF a < b THEN a ELSE b

\* ceil(a / b) for a >= 0, b > 0
CeilDiv(a, b) == (a + b - 1) \div b

\* 2 ** k
RECURSIVE Pow2(_)
Pow2(k) == IF k <= 0 THEN 1 ELSE 2 * Pow2(k - 1)

\* s[::2] of a python sequence (0-based indices 0, 2, 4, ...)
EveryOther(s) == [k \in 1..CeilDiv(Len(s), 2) |-> s[2 * k - 1]]

\* s[:-1]
DropLast(s) == IF Len(s) = 0 THEN s ELSE SubSeq(s, 1, Len(s) - 1)

\* s[1:]
DropFirst(s) == IF Len(s) = 0 THEN s ELSE SubSeq(s, 2, Len(s))

\* s[:k] for k >= 0
Prefix(s, k) == SubSeq(s, 1, Min2(k, Len(s)))

\* ops.arange(start, stop, -stride): start, start - stride, ... while > stop
ArangeDown(start, stop, stride) ==
    IF start <= stop THEN << >>
    ELSE [k \in 1..CeilDiv(start - stop, stride) |-> start - (k - 1) * stride]

\* ------------------------------------------------ FunnelAttentionStructure
\* class attribute cls_token_type_id
cls_token_type_id == 2

BoolToInt(b) == IF b THEN 1 ELSE 0

\* bitwise | on 0/1 integers
BitOr(a, b) == IF a = 1 \/ b = 1 THEN 1 ELSE 0

\* token_type_ids_to_mat without the <cls> treatment
token_type_ids_to_mat_no_cls(token_type_ids) ==
    [b \in DOMAIN token_type_ids |->
        LET ids == token_type_ids[b]
        IN [i \in DOMAIN ids |-> [j \in DOMAIN ids |-> ids[i] = ids[j]]]]

\* token_type_ids is [batch][seq]; the result is [batch][seq][seq] of booleans
token_type_ids_to_mat(token_type_ids) ==
    [b \in DOMAIN token_type_ids |->
        LET ids == token_type_ids[b]
            token_type_mat == [i \in DOMAIN ids |-> [j \in DOMAIN ids |-> ids[i] = ids[j]]]
            cls_ids == [i \in DOMAIN ids |-> ids[i] = cls_token_type_id]
            cls_mat == [i \in DOMAIN ids |-> [j \in DOMAIN ids |->
                           BitOr(BoolToInt(cls_ids[i]), BoolToInt(cls_ids[j]))]]
        IN [i \in DOMAIN ids |-> [j \in DOMAIN ids |->
               BitOr(cls_mat[i][j], BoolToInt(token_type_mat[i][j])) # 0]]]

\* stride_pool_pos that keeps the last position under truncate_seq
stride_pool_pos_no_truncate(cfg, pos_id, blk) ==
    IF cfg.separate_cls
    THEN << 1 - Pow2(blk) >> \o EveryOther(DropFirst(pos_id))
    ELSE EveryOther(pos_id)

\* stride_pool_pos that leaves the <cls> position where it was
stride_pool_pos_keeps_cls(cfg, pos_id, blk) ==
    IF cfg.separate_cls
    THEN LET pooled_pos_id == IF cfg.truncate_seq THEN DropLast(DropFirst(pos_id))
                              ELSE DropFirst(pos_id)
         IN Prefix(pos_id, 1) \o EveryOther(pooled_pos_id)
    ELSE EveryOther(pos_id)

\* pos_id[::2], with the <cls> position kept apart under separate_cls
stride_pool_pos(cfg, pos_id, blk) ==
    IF cfg.separate_cls
    THEN LET cls_pos == << 1 - Pow2(blk) >>
             pooled_pos_id == IF cfg.truncate_seq THEN DropLast(DropFirst(pos_id))
                              ELSE DropFirst(pos_id)
         IN cls_pos \o EveryOther(pooled_pos_id)
    ELSE EveryOther(pos_id)

\* relative_pos with the arange stopping one step early (stop = min_dist)
relative_pos_stop_early(pos, stride, pooled_pos_arg, shift) ==
    LET pooled_pos == IF pooled_pos_arg = None THEN pos ELSE pooled_pos_arg
        ref_point == pooled_pos[1] - pos[1]
        num_remove == shift * Len(pooled_pos)
        max_dist == ref_point + num_remove * stride
        min_dist == pooled_pos[1] - pos[Len(pos)]
    IN ArangeDown(max_dist, min_dist, stride)

\* the relative positional vector between pos and pooled_pos (None: pos)
relative_pos(pos, stride, pooled_pos_arg, shift) ==
    LET pooled_pos == IF pooled_pos_arg = None THEN pos ELSE pooled_pos_arg
        ref_point == pooled_pos[1] - pos[1]
        num_remove == shift * Len(pooled_pos)
        max_dist == ref_point + num_remove * stride
        min_dist == pooled_pos[1] - pos[Len(pos)]
    IN ArangeDown(max_dist, min_dist - 1, stride)

\* the shared sinusoid bank: row k carries the sinusoid of rel_pos_id[k]
pos_embed_bank(n) == [k \in 1..(4 * n) |-> (k - 1) - 2 * n]

\* the gather without the zero offset
gather_rows_no_offset(n, rel_pos) ==
    LET bank == pos_embed_bank(n)
    IN [t \in DOMAIN rel_pos |->
           LET idx == rel_pos[t]
           IN IF idx \in 0..(Len(bank) - 1) THEN << bank[idx + 1] >> ELSE << >>]

\* ops.gather(pos_embed, 0, rel_pos + zero_offset): a row is the 1-tuple of the
\* relative position whose sinusoid it holds, the empty tuple when the index
\* falls outside the bank
gather_rows(n, rel_pos) ==
    LET zero_offset == n * 2
        bank == pos_embed_bank(n)
    IN [t \in DOMAIN rel_pos |->
           LET idx == rel_pos[t] + zero_offset
           IN IF idx \in 0..(Len(bank) - 1) THEN << bank[idx + 1] >> ELSE << >>]

\* the position ids `pos` holds after the loop iteration of block blk
RECURSIVE block_pos(_, _, _)
block_pos(cfg, n, blk) ==
    IF blk = 0 THEN [i \in 1..n |-> i - 1]
    ELSE stride_pool_pos(cfg, block_pos(cfg, n, blk - 1), blk)

\* one iteration of the loop over blocks of the relative-shift branch
position_embeds_of_block(cfg, n, blk) ==
    LET pos == block_pos(cfg, n, IF blk = 0 THEN 0 ELSE blk - 1)
        pooled_pos == block_pos(cfg, n, blk)
        position_embeds_pooling ==
            IF blk = 0 THEN None
            ELSE gather_rows(n, relative_pos(pos, Pow2(blk - 1), pooled_pos, 2))
        position_embeds_no_pooling ==
            gather_rows(n, relative_pos(pooled_pos, Pow2(blk), None, 1))
    IN << position_embeds_no_pooling, position_embeds_pooling >>

\* factorized: (phi, pi, psi, omega), each row named by its position;
\* relative shift: per block [no_pooling, pooling]
get_position_embeds(cfg, n) ==
    IF cfg.attention_type = "factorized"
    THEN LET pos_seq == [i \in 1..n |-> i - 1]
         IN << pos_seq, pos_seq, pos_seq, pos_seq >>
    ELSE [blk1 \in 1..Len(cfg.block_sizes) |-> position_embeds_of_block(cfg, n, blk1 - 1)]

\* the slicing that does not put the first entry in front
axis_slice_no_cls(cfg, t) ==
    IF cfg.separate_cls /\ cfg.truncate_seq THEN EveryOther(DropLast(t))
    ELSE EveryOther(t)

\* slicing of one axis: tensor[::2] (tensor[:-1:2] under separate_cls and
\* truncate_seq) after the first entry was put in front under separate_cls
axis_slice(cfg, t) ==
    LET cat == IF cfg.separate_cls THEN Prefix(t, 1) \o t ELSE t
    IN IF cfg.separate_cls /\ cfg.truncate_seq THEN EveryOther(DropLast(cat))
       ELSE EveryOther(cat)

RECURSIVE stride_pool_axis(_, _, _)
stride_pool_axis(cfg, tensor, axis) ==
    IF axis = 0 THEN axis_slice(cfg, tensor)
    ELSE [i \in DOMAIN tensor |-> stride_pool_axis(cfg, tensor[i], axis - 1)]

\* stride_pool of one tensor of ndim axes along one axis
stride_pool(cfg, tensor, axis, ndim) ==
    IF tensor = None THEN None
    ELSE stride_pool_axis(cfg, tensor, axis % ndim)

\* stride_pool with a list of axes that pools the first axis only
stride_pool_axes_first_only(cfg, tensor, axes, ndim) ==
    IF tensor = None THEN None
    ELSE IF axes = << >> THEN tensor
    ELSE stride_pool(cfg, tensor, Head(axes), ndim)

\* stride_pool with a list of axes: one axis after another
RECURSIVE stride_pool_axes(_, _, _, _)
stride_pool_axes(cfg, tensor, axes, ndim) ==
    IF tensor = None THEN None
    ELSE IF axes = << >> THEN tensor
    ELSE stride_pool_axes(cfg, stride_pool(cfg, tensor, Head(axes), ndim), Tail(axes), ndim)

\* stride_pool of a tuple of tensors: element by element
stride_pool_tuple(cfg, tensors, axis, ndim) ==
    [i \in DOMAIN tensors |-> stride_pool(cfg, tensors[i], axis, ndim)]

\* a call of stride_pool as the function dispatches it: None, then a list of
\* axes, then a tuple or list of tensors, then one tensor and one axis; the
\* argument names its container type ("None", "tensor", "tuple", "list") and
\* whether `axis` is a list
stride_pool_call(cfg, arg) ==
    IF arg.container = "None" THEN [container |-> "None", value |-> None]
    ELSE IF arg.container = "tensor"
    THEN [ container |-> "tensor",
           value |-> IF arg.axis_is_list
                     THEN stride_pool_axes(cfg, arg.tensor, arg.axes, arg.ndim)
                     ELSE stride_pool(cfg, arg.tensor, arg.axes[1], arg.ndim) ]
    ELSE [ container |-> arg.container,
           value |-> IF arg.axis_is_list
                     THEN [i \in DOMAIN arg.tensor |->
                              stride_pool_axes(cfg, arg.tensor[i], arg.axes, arg.ndim)]
                     ELSE stride_pool_tuple(cfg, arg.tensor, arg.axes[1], arg.ndim) ]

\* pool_input that does not put the class token in front
pool_input_no_cls(cfg, tensor) == tensor

\* pool_input that keeps the last position under truncate_seq
pool_input_keep_last(cfg, tensor) ==
    IF cfg.separate_cls THEN Prefix(tensor, 1) \o tensor ELSE tensor

\* the tensor pool_tensor hands to the pooling kernel
pool_input(cfg, tensor) ==
    IF cfg.separate_cls
    THEN LET suffix == IF cfg.truncate_seq THEN DropLast(tensor) ELSE tensor
         IN Prefix(tensor, 1) \o suffix
    ELSE tensor

\* the windows with ceil_mode=False: a trailing partial window is dropped
pool_windows_floor(t, stride) ==
    [k \in 1..(Len(t) \div stride) |-> SubSeq(t, (k - 1) * stride + 1, k * stride)]

\* windows of a (stride, 1) kernel with ceil_mode=True over the sequence axis
pool_windows(t, stride) ==
    [k \in 1..CeilDiv(Len(t), stride) |->
        SubSeq(t, (k - 1) * stride + 1, Min2(k * stride, Len(t)))]

RECURSIVE SeqSum(_)
SeqSum(w) == IF w = << >> THEN 0 ELSE Head(w) + SeqSum(Tail(w))

SeqMax(w) == CHOOSE x \in {w[i] : i \in DOMAIN w} : \A i \in DOMAIN w : w[i] <= x

\* the reduction that takes the maximum where the minimum is asked for
pool_reduce_max_for_min(w, mode) ==
    CASE mode = "mean" -> SeqSum(w) \div Len(w)
      [] mode = "max" -> SeqMax(w)
      [] mode = "min" -> SeqMax(w)

\* avg_pool2d / max_pool2d / -max_pool2d(-x) over one window
pool_reduce(w, mode) ==
    CASE mode = "mean" -> SeqSum(w) \div Len(w)
      [] mode = "max" -> SeqMax(w)
      [] mode = "min" -> 0 - SeqMax([i \in DOMAIN w |-> 0 - w[i]])

\* the modes pool_tensor implements
supported_modes == {"mean", "max", "min"}

\* pool_tensor that looks at the mode before it looks at the tensor
pool_tensor_raises_on_none(tensor, mode) == mode \notin supported_modes

\* pool_tensor ends in NotImplementedError: a tensor was given (None returns
\* None before the mode is looked at) and the mode is none of the three
pool_tensor_raises(tensor, mode) == tensor # None /\ mode \notin supported_modes

\* pool_tensor of a tensor of numbers, modelled by its sequence axis
pool_tensor(cfg, tensor, mode, stride) ==
    IF tensor = None THEN None
    ELSE LET windows == pool_windows(pool_input(cfg, tensor), stride)
         IN [k \in DOMAIN windows |-> pool_reduce(windows[k], mode)]

\* pool_tensor of the hidden state without the class token put in front
pool_hidden_no_cls(cfg, tensor, mode, stride) ==
    LET windows == pool_windows(tensor, stride)
    IN [k \in DOMAIN windows |-> UNION {windows[k][i] : i \in DOMAIN windows[k]}]

\* pool_tensor of the hidden state: a position is the set of input positions
\* its window reduces
pool_hidden(cfg, tensor, mode, stride) ==
    LET windows == pool_windows(pool_input(cfg, tensor), stride)
    IN [k \in DOMAIN windows |-> UNION {windows[k][i] : i \in DOMAIN windows[k]}]

\* the padding with a leading row and column of ones
pad_leading_ones(ones) ==
    LET m == Len(ones) + 1
    IN [i \in 1..m |-> [j \in 1..m |-> 1]]

\* F.pad(ones([n - 1, n - 1]), (1, 0, 1, 0)): one leading row and column of 0
pad_leading(ones) ==
    LET m == Len(ones) + 1
    IN [i \in 1..m |-> [j \in 1..m |-> IF i = 1 \/ j = 1 THEN 0 ELSE ones[i - 1][j - 1]]]

init_attention_inputs(cfg, inputs_embeds, attention_mask, token_type_ids) ==
    LET n == Len(inputs_embeds)
    IN [ position_embeds |-> get_position_embeds(cfg, n),
         token_type_mat |-> IF token_type_ids # None THEN token_type_ids_to_mat(token_type_ids)
                            ELSE None,
         attention_mask |-> attention_mask,
         cls_mask |-> IF cfg.separate_cls
                      THEN pad_leading([i \in 1..(n - 1) |-> [j \in 1..(n - 1) |-> 1]])
                      ELSE None ]

\* returns the pooled output, the new attention inputs and the new pooling_mult
pre_attention_pooling(cfg, output, ai, mult) ==
    IF cfg.pool_q_only
    THEN [ output |-> pool_hidden(cfg, output, cfg.pooling_type, 2),
           attention_inputs |->
             [ position_embeds |->
                 IF cfg.attention_type = "factorized"
                 THEN stride_pool_tuple(cfg, SubSeq(ai.position_embeds, 1, 2), 0, 2)
                      \o SubSeq(ai.position_embeds, 3, 4)
                 ELSE ai.position_embeds,
               token_type_mat |-> stride_pool(cfg, ai.token_type_mat, 1, 3),
               attention_mask |-> ai.attention_mask,
               cls_mask |-> stride_pool(cfg, ai.cls_mask, 0, 2) ],
           pooling_mult |-> mult ]
    ELSE [ output |-> pool_hidden(cfg, output, cfg.pooling_type, 2),
           attention_inputs |->
             [ position_embeds |->
                 IF cfg.attention_type = "factorized"
                 THEN stride_pool_tuple(cfg, ai.position_embeds, 0, 2)
                 ELSE ai.position_embeds,
               token_type_mat |-> stride_pool_axes(cfg, ai.token_type_mat, << 1, 2 >>, 3),
               attention_mask |-> pool_tensor(cfg, ai.attention_mask, "min", 2),
               cls_mask |-> stride_pool_axes(cfg, ai.cls_mask, << 1, 2 >>, 2) ],
           pooling_mult |-> mult * 2 ]

\* post_attention_pooling that leaves pooling_mult alone
post_attention_pooling_keeps_mult(cfg, ai, mult) ==
    IF cfg.pool_q_only
    THEN [ attention_inputs |->
             [ position_embeds |->
                 IF cfg.attention_type = "factorized"
                 THEN SubSeq(ai.position_embeds, 1, 2)
                      \o stride_pool_tuple(cfg, SubSeq(ai.position_embeds, 3, 4), 0, 2)
                 ELSE ai.position_embeds,
               token_type_mat |-> stride_pool(cfg, ai.token_type_mat, 2, 3),
               attention_mask |-> pool_tensor(cfg, ai.attention_mask, "min", 2),
               cls_mask |-> stride_pool(cfg, ai.cls_mask, 1, 2) ],
           pooling_mult |-> mult ]
    ELSE [ attention_inputs |-> ai, pooling_mult |-> mult ]

post_attention_pooling(cfg, ai, mult) ==
    IF cfg.pool_q_only
    THEN [ attention_inputs |->
             [ position_embeds |->
                 IF cfg.attention_type = "factorized"
                 THEN SubSeq(ai.position_embeds, 1, 2)
                      \o stride_pool_tuple(cfg, SubSeq(ai.position_embeds, 3, 4), 0, 2)
                 ELSE ai.position_embeds,
               token_type_mat |-> stride_pool(cfg, ai.token_type_mat, 2, 3),
               attention_mask |-> pool_tensor(cfg, ai.attention_mask, "min", 2),
               cls_mask |-> stride_pool(cfg, ai.cls_mask, 1, 2) ],
           pooling_mult |-> mult * 2 ]
    ELSE [ attention_inputs |-> ai, pooling_mult |-> mult ]


\* ------------------------------------------------- _relative_shift_gather
RECURSIVE flatten(_)
flatten(m) == IF m = << >> THEN << >> ELSE Head(m) \o flatten(Tail(m))

\* ops.reshape of row-major data to [rows, cols]
reshape(flat, rows, cols) ==
    [i \in 1..rows |-> SubSeq(flat, (i - 1) * cols + 1, i * cols)]

\* the gather without dropping the first `shift` offset rows
relative_shift_gather_no_drop(positional_attn, context_len, shift) ==
    LET s_len == Len(positional_attn)
        max_rel_len == Len(positional_attn[1])
        moved == reshape(flatten(positional_attn), max_rel_len, s_len)
        back == reshape(flatten(moved), s_len, max_rel_len)
    IN [i \in DOMAIN back |-> Prefix(back[i], context_len)]

\* positional_attn is [seq_len][max_rel_len] (batch and head axes left out)
relative_shift_gather(positional_attn, context_len, shift) ==
    LET s_len == Len(positional_attn)
        max_rel_len == Len(positional_attn[1])
        moved == reshape(flatten(positional_attn), max_rel_len, s_len)
        dropped == SubSeq(moved, shift + 1, Len(moved))
        back == reshape(flatten(dropped), s_len, max_rel_len - shift)
    IN [i \in DOMAIN back |-> Prefix(back[i], context_len)]

\* ----------------------------------------- relative_positional_attention
\* the shift that always takes the self-attention embeddings
attention_shift_always_1(q_len, context_len) == 1

\* shift = 2 if q_head.shape[1] != context_len else 1
attention_shift(q_len, context_len) == IF q_len # context_len THEN 2 ELSE 1

\* the relative-shift branch for the layers of block blk: r is the block's
\* embedding of the shift; entry (i, t) of the score tensor pairs query i with
\* row t of r, and the gather picks one entry per (query, key) pair
relative_positional_attention(position_embeds, blk, q_len, context_len) ==
    LET shift == attention_shift(q_len, context_len)
        r == position_embeds[blk + 1][shift]
        positional_attn == [i \in 1..q_len |-> [t \in DOMAIN r |-> [query |-> i - 1, r |-> r[t]]]]
    IN [ shift |-> shift,
         max_rel_len |-> Len(r),
         positional_attn |-> relative_shift_gather(positional_attn, context_len, shift) ]

\* ------------------------------------------------------- layers, upsample
\* FunnelLayer.forward: attention and feed-forward both end in
\* layer_norm(input + update), so the output keeps the query's sequence axis
FunnelLayer_forward(query, key, value, ai) == [i \in DOMAIN query |-> query[i]]

\* a repetition of the whole sequence `stride` times instead of each token
repeat_tiled(x, stride) ==
    [j \in 1..(Len(x) * stride) |-> x[((j - 1) % Len(x)) + 1]]

\* ops.repeat_interleave(x, repeats=stride, dim=1)
repeat_interleave(x, stride) ==
    [j \in 1..(Len(x) * stride) |-> x[((j - 1) \div stride) + 1]]

\* a position of the hidden state that is all zeros (padding): no input position
ZeroPosition == {}

\* upsample without the padding of the truncate_seq case
upsample_no_pad(x, stride, target_len, separate_cls, truncate_seq) ==
    IF stride = 1 THEN x
    ELSE LET cls == Prefix(x, 1)
             body == IF separate_cls THEN DropFirst(x) ELSE x
             output == repeat_interleave(body, stride)
         IN IF separate_cls THEN cls \o Prefix(output, target_len - 1)
            ELSE Prefix(output, target_len)

\* upsample of the decoder
upsample(x, stride, target_len, separate_cls, truncate_seq) ==
    IF stride = 1 THEN x
    ELSE LET cls == Prefix(x, 1)
             body == IF separate_cls THEN DropFirst(x) ELSE x
             output == repeat_interleave(body, stride)
         IN IF separate_cls
            THEN LET padded == IF truncate_seq
                               THEN output \o [k \in 1..(stride - 1) |-> ZeroPosition]
                               ELSE output
                 IN cls \o Prefix(padded, target_len - 1)
            ELSE Prefix(output, target_len)

\* the tensor engine adds two sequence axes of equal length, broadcasts an axis
\* of length 1 and rejects other unequal lengths
can_add(a, b) == Len(a) = Len(b) \/ Len(a) = 1 \/ Len(b) = 1

\* upsampled_hidden + first_block_hidden over the sequence axis
tensor_add(a, b) ==
    IF Len(a) = Len(b) THEN [i \in DOMAIN a |-> a[i] \cup b[i]]
    ELSE IF Len(a) = 1 THEN [i \in DOMAIN b |-> a[1] \cup b[i]]
    ELSE [i \in DOMAIN a |-> a[i] \cup b[1]]


VARIABLES
    config,             \* FunnelConfig of the model instance
    pc,                 \* position in FunnelModel.forward
    inputs,             \* the arguments of the running forward call
    seq_len,            \* attention_structure.seq_len of the encoder and of the decoder
    pooling_mult,       \* attention_structure.pooling_mult of both (0 models None)
    hidden,             \* FunnelEncoder/FunnelDecoder local `hidden`
    pooled_hidden,      \* FunnelEncoder local `pooled_hidden`
    attention_inputs,   \* (position_embeds, token_type_mat, attention_mask, cls_mask)
    pooling_flag,       \* FunnelEncoder local `pooling_flag`
    block_index,        \* loop counters of FunnelEncoder.forward
    layer_index,
    repeat_index,
    all_hidden_states,  \* FunnelEncoder local `all_hidden_states`
    upsampled_hidden,   \* FunnelDecoder local `upsampled_hidden`
    last_call,          \* arguments of the latest layer application
    calls,              \* log of the pooling calls and layer applications of the pass
    passes,             \* the locals of the forward calls running on one classifier model
    frames,             \* the pool_tensor calls on the call stack of a direct call
    fn_in,              \* arguments of a direct call of one helper function
    fn_out              \* what that call returned

vars == << config, pc, inputs, seq_len, pooling_mult, hidden, pooled_hidden, attention_inputs,
           pooling_flag, block_index, layer_index, repeat_index, all_hidden_states,
           upsampled_hidden, last_call, calls, passes, frames, fn_in, fn_out >>

\* ------------------------------------------------- FunnelEncoder.forward
\* pooling_flag with a threshold that ignores separate_cls
pooling_flag_of_no_cls(cfg, hid, blk) ==
    Len(hid) > 1 /\ blk > 0

\* pooling_flag of a block
pooling_flag_of(cfg, hid, blk) ==
    Len(hid) > (IF cfg.separate_cls THEN 2 ELSE 1) /\ blk > 0

\* do_pooling that forgets repeat_index
do_pooling_at_every_repeat(rep, lay, flag) ==
    lay = 0 /\ flag

\* do_pooling of one layer application
do_pooling_at(rep, lay, flag) ==
    rep = 0 /\ lay = 0 /\ flag

\* the factor cls_mask puts on the positional and the token-type scores of the
\* pair (query i, key j): the mask entry, 1 without a mask; None when the mask
\* does not have the scores' shape [q_len, kv_len]
bias_factor(cls_mask, q_len, kv_len) ==
    IF cls_mask = None THEN [i \in 1..q_len |-> [j \in 1..kv_len |-> 1]]
    ELSE IF Len(cls_mask) = q_len /\ \A i \in DOMAIN cls_mask : Len(cls_mask[i]) = kv_len
    THEN [i \in 1..q_len |-> [j \in 1..kv_len |-> 1 * cls_mask[i][j]]]
    ELSE None

\* ------------------------------------------------------------ the machine
\* the configurations: every flag combination, both attention types, and
\* nb blocks of k layers each, every block repeated r times
Configs ==
    {[ separate_cls |-> s, truncate_seq |-> t, pool_q_only |-> q, attention_type |-> a,
       pooling_type |-> "mean",
       block_sizes |-> [b \in 1..nb |-> k], block_repeats |-> [b \in 1..nb |-> r],
       num_decoder_layers |-> d ] :
        s \in BOOLEAN, t \in BOOLEAN, q \in BOOLEAN,
        a \in {"factorized", "relative_shift"},
        nb \in 1..MaxBlocks, k \in 1..MaxBlockSize, r \in 1..MaxRepeat,
        d \in 1..MaxDecoderLayers}

num_blocks == Len(config.block_sizes)

\* the model after construction: pooling_mult = None, no forward call running
\* no helper call has returned
NotReturned == [returned |-> FALSE, value |-> None]

Returned(v) == [returned |-> TRUE, value |-> v]

fwd_vars == << config, pc, inputs, seq_len, pooling_mult, hidden, pooled_hidden,
               attention_inputs, pooling_flag, block_index, layer_index, repeat_index,
               all_hidden_states, upsampled_hidden, last_call, calls >>

ModelIdle ==
    /\ pc = "idle"
    /\ inputs = None
    /\ seq_len = [encoder |-> 0, decoder |-> 0]
    /\ pooling_mult = [encoder |-> 0, decoder |-> 0]
    /\ hidden = None
    /\ pooled_hidden = None
    /\ attention_inputs = None
    /\ pooling_flag = FALSE
    /\ block_index = 0
    /\ layer_index = 0
    /\ repeat_index = 0
    /\ all_hidden_states = None
    /\ upsampled_hidden = None
    /\ last_call = None
    /\ calls = << >>

Init ==
    /\ config \in Configs
    /\ ModelIdle
    /\ passes = None
    /\ frames = None
    /\ fn_in = None
    /\ fn_out = NotReturned

\* FunnelModel.forward with an attention mask, up to the first block of the
\* encoder: token_type_ids defaults to zeros; inputs_embeds position i is input i
ForwardWith(n, attention_mask) ==
    /\ config # None
    /\ pc = "idle"
    /\ LET inputs_embeds == [i \in 1..n |-> {i - 1}]
           token_type_ids == << [i \in 1..n |-> 0] >>
       IN /\ inputs' = [attention_mask |-> attention_mask, token_type_ids |-> token_type_ids]
          /\ attention_inputs' =
                 init_attention_inputs(config, inputs_embeds, attention_mask, token_type_ids)
          /\ hidden' = inputs_embeds
          /\ all_hidden_states' = << inputs_embeds >>
    /\ pooling_mult' = [pooling_mult EXCEPT !.encoder = 1]
    /\ seq_len' = [seq_len EXCEPT !.encoder = n]
    /\ pooled_hidden' = None
    /\ pooling_flag' = FALSE
    /\ block_index' = 0
    /\ layer_index' = 0
    /\ repeat_index' = 0
    /\ upsampled_hidden' = None
    /\ last_call' = None
    /\ calls' = << >>
    /\ pc' = "block"
    /\ UNCHANGED << config, passes, frames, fn_in, fn_out >>

\* FunnelModel.forward without an attention mask: it defaults to ones
Forward(n) == ForwardWith(n, [i \in 1..n |-> 1])

\* FunnelEncoder.forward, entering a block: the pooling flag and the pooling
\* before the block's first layer, which ends the pass in NotImplementedError
\* when pool_tensor does not implement config.pooling_type (pooling_mult is
\* doubled before that unless pool_q_only)
EncoderBlock ==
    /\ pc = "block"
    /\ LET flag == pooling_flag_of(config, hidden, block_index)
           raises == pool_tensor_raises(hidden, config.pooling_type)
           r == pre_attention_pooling(config, hidden, attention_inputs, pooling_mult.encoder)
       IN /\ pooling_flag' = flag
          /\ IF flag /\ raises
             THEN /\ pooling_mult' = [pooling_mult EXCEPT !.encoder =
                                          IF config.pool_q_only THEN @ ELSE @ * 2]
                  /\ calls' = Append(calls, [op |-> "pre_attention_pooling",
                                             block |-> block_index, q_len |-> 0,
                                             kv_len |-> Len(hidden),
                                             query |-> "-", key |-> "-"])
                  /\ pc' = "NotImplementedError"
                  /\ UNCHANGED << pooled_hidden, attention_inputs >>
             ELSE IF flag
             THEN /\ pooled_hidden' = r.output
                  /\ attention_inputs' = r.attention_inputs
                  /\ pooling_mult' = [pooling_mult EXCEPT !.encoder = r.pooling_mult]
                  /\ calls' = Append(calls, [op |-> "pre_attention_pooling",
                                             block |-> block_index, q_len |-> Len(r.output),
                                             kv_len |-> Len(hidden),
                                             query |-> "-", key |-> "-"])
                  /\ pc' = "layer"
             ELSE /\ pc' = "layer"
                  /\ UNCHANGED << pooled_hidden, attention_inputs, pooling_mult, calls >>
    /\ layer_index' = 0
    /\ repeat_index' = 0
    /\ UNCHANGED << passes, frames, fn_in, fn_out, config, inputs, seq_len, hidden, block_index, all_hidden_states,
                    upsampled_hidden, last_call >>

\* one iteration of the loop over the layers and repeats of a block
EncoderLayer ==
    /\ pc = "layer"
    /\ LET do_pooling == do_pooling_at(repeat_index, layer_index, pooling_flag)
           query == IF do_pooling THEN pooled_hidden ELSE hidden
           key == IF do_pooling /\ ~config.pool_q_only THEN pooled_hidden ELSE hidden
           layer_output == FunnelLayer_forward(query, key, key, attention_inputs)
           r == post_attention_pooling(config, attention_inputs, pooling_mult.encoder)
           call == [op |-> "layer", block |-> block_index,
                    q_len |-> Len(query), kv_len |-> Len(key),
                    query |-> IF do_pooling THEN "pooled_hidden" ELSE "hidden",
                    key |-> IF do_pooling /\ ~config.pool_q_only THEN "pooled_hidden"
                            ELSE "hidden"]
       IN /\ hidden' = layer_output
          /\ last_call' = [query |-> query, key |-> key, value |-> key,
                           attention_inputs |-> attention_inputs,
                           bias_factor |-> bias_factor(attention_inputs.cls_mask,
                                                       Len(query), Len(key)),
                           block_index |-> block_index, part |-> "encoder"]
          /\ IF do_pooling
             THEN /\ attention_inputs' = r.attention_inputs
                  /\ pooling_mult' = [pooling_mult EXCEPT !.encoder = r.pooling_mult]
                  /\ calls' = calls \o << call, [op |-> "post_attention_pooling",
                                                block |-> block_index,
                                                q_len |-> Len(query), kv_len |-> Len(key),
                                                query |-> "-", key |-> "-"] >>
             ELSE /\ calls' = Append(calls, call)
                  /\ UNCHANGED << attention_inputs, pooling_mult >>
          /\ all_hidden_states' = Append(all_hidden_states, layer_output)
    /\ IF repeat_index + 1 < config.block_repeats[block_index + 1]
       THEN /\ repeat_index' = repeat_index + 1
            /\ UNCHANGED << layer_index, block_index, pc >>
       ELSE IF layer_index + 1 < config.block_sizes[block_index + 1]
       THEN /\ repeat_index' = 0
            /\ layer_index' = layer_index + 1
            /\ UNCHANGED << block_index, pc >>
       ELSE /\ repeat_index' = 0
            /\ layer_index' = 0
            /\ block_index' = block_index + 1
            /\ pc' = IF block_index + 1 < num_blocks THEN "block" ELSE "decoder"
    /\ UNCHANGED << passes, frames, fn_in, fn_out, config, inputs, seq_len, pooled_hidden, pooling_flag, upsampled_hidden >>

\* the index into the encoder's hidden_states (entry 0: the embeddings, entry
\* k: the output of the k-th layer application) of the state that
\* FunnelModel.forward passes as first_block_hidden
first_block_index(cfg) == cfg.block_sizes[1]

\* FunnelModel.forward handing the encoder's outputs to FunnelDecoder.forward,
\* up to the decoder's first layer
DecoderStart ==
    /\ pc = "decoder"
    /\ LET final_hidden == hidden
           first_block_hidden == all_hidden_states[first_block_index(config) + 1]
           up == upsample(final_hidden, Pow2(Len(config.block_sizes) - 1),
                          Len(first_block_hidden), config.separate_cls, config.truncate_seq)
           sum == tensor_add(up, first_block_hidden)
       IN /\ upsampled_hidden' = up
          /\ IF ~can_add(up, first_block_hidden)
             THEN /\ pc' = "error"
                  /\ UNCHANGED << hidden, attention_inputs, pooling_mult, seq_len >>
             ELSE /\ hidden' = sum
                  /\ attention_inputs' = init_attention_inputs(
                         config, sum, inputs.attention_mask, inputs.token_type_ids)
                  /\ pooling_mult' = [pooling_mult EXCEPT !.decoder = 1]
                  /\ seq_len' = [seq_len EXCEPT !.decoder = Len(sum)]
                  /\ pc' = "decoder_layer"
    /\ layer_index' = 0
    /\ UNCHANGED << passes, frames, fn_in, fn_out, config, inputs, pooled_hidden, pooling_flag, block_index, repeat_index,
                    all_hidden_states, last_call, calls >>

\* one iteration of the loop over the decoder's layers
DecoderLayer ==
    /\ pc = "decoder_layer"
    /\ hidden' = FunnelLayer_forward(hidden, hidden, hidden, attention_inputs)
    /\ last_call' = [query |-> hidden, key |-> hidden, value |-> hidden,
                     attention_inputs |-> attention_inputs,
                     bias_factor |-> bias_factor(attention_inputs.cls_mask,
                                                 Len(hidden), Len(hidden)),
                     block_index |-> 0, part |-> "decoder"]
    /\ layer_index' = layer_index + 1
    /\ pc' = IF layer_index + 1 < config.num_decoder_layers THEN "decoder_layer" ELSE "done"
    /\ UNCHANGED << passes, frames, fn_in, fn_out, config, inputs, seq_len, pooling_mult, pooled_hidden, attention_inputs,
                    pooling_flag, block_index, repeat_index, all_hidden_states,
                    upsampled_hidden, calls >>

Next ==
    \/ \E n \in 1..MaxSeqLen : Forward(n)
    \/ EncoderBlock
    \/ EncoderLayer
    \/ DecoderStart
    \/ DecoderLayer

Spec == Init /\ [][Next]_vars

\* ------------------------------------- direct calls: _relative_shift_gather
\* score tensors [seq_len, max_rel_len] whose entry (i, t) is named <<i, t>>
GatherInputs ==
    {[ op |-> "relative_shift_gather", context_len |-> c, shift |-> sh,
       positional_attn |-> [i \in 1..s |-> [t \in 1..m |-> << i - 1, t - 1 >>]] ] :
        s \in 1..MaxGatherLen, c \in 1..MaxGatherLen, sh \in {1, 2},
        m \in 3..(2 * MaxGatherLen + 2)}

InitGather ==
    /\ config = None
    /\ ModelIdle
    /\ passes = None
    /\ frames = None
    /\ fn_in \in GatherInputs
    /\ fn_out = NotReturned

ApplyGather ==
    /\ fn_in.op = "relative_shift_gather"
    /\ ~fn_out.returned
    /\ fn_out' = Returned(relative_shift_gather(fn_in.positional_attn, fn_in.context_len,
                                                fn_in.shift))
    /\ UNCHANGED << fwd_vars, passes, frames, fn_in >>

NextGather == ApplyGather

SpecGather == InitGather /\ [][NextGather]_vars

\* ------------------------------------------------ direct calls: pool_tensor
PoolValues == {0, 2, 4}

\* tensors [1, T] of even numbers (so that a mean over a window is exact)
PoolInputs ==
    {[ op |-> "pool_tensor", cfg |-> [separate_cls |-> s, truncate_seq |-> t],
       tensor |-> x, mode |-> m, stride |-> 2 ] :
        s \in BOOLEAN, t \in BOOLEAN, m \in {"mean", "max", "min"},
        x \in UNION {[1..len -> PoolValues] : len \in 1..MaxPoolLen}}

InitPool ==
    /\ config = None
    /\ ModelIdle
    /\ passes = None
    /\ frames = None
    /\ fn_in \in PoolInputs
    /\ fn_out = NotReturned

\* pool_tensor applied to the tensor and, for the windows it reduces, to the
\* tensor that holds at each position the set of that position's index; a mode
\* that is not implemented ends the call in NotImplementedError
ApplyPool ==
    /\ fn_in # None
    /\ fn_in.op = "pool_tensor"
    /\ ~fn_out.returned
    /\ fn_out' =
           IF pool_tensor_raises(fn_in.tensor, fn_in.mode)
           THEN Returned([ result |-> None, windows |-> None,
                           error |-> "NotImplementedError" ])
           ELSE Returned(
               [ result |-> pool_tensor(fn_in.cfg, fn_in.tensor, fn_in.mode, fn_in.stride),
                 windows |-> pool_hidden(fn_in.cfg, [i \in DOMAIN fn_in.tensor |-> {i - 1}],
                                         fn_in.mode, fn_in.stride),
                 error |-> "None" ])
    /\ UNCHANGED << fwd_vars, passes, frames, fn_in >>

NextPool == ApplyPool

SpecPool == InitPool /\ [][NextPool]_vars

\* -------------------------------------- direct calls: token_type_ids_to_mat
TokenTypeInputs ==
    {[ op |-> "token_type_ids_to_mat", token_type_ids |-> ids ] :
        ids \in UNION {[1..b -> [1..len -> {0, 1, 2}]] :
                           b \in 1..MaxBatch, len \in 1..MaxIdsLen}}

InitTokenType ==
    /\ config = None
    /\ ModelIdle
    /\ passes = None
    /\ frames = None
    /\ fn_in \in TokenTypeInputs
    /\ fn_out = NotReturned

ApplyTokenType ==
    /\ fn_in.op = "token_type_ids_to_mat"
    /\ ~fn_out.returned
    /\ fn_out' = Returned(token_type_ids_to_mat(fn_in.token_type_ids))
    /\ UNCHANGED << fwd_vars, passes, frames, fn_in >>

NextTokenType == ApplyTokenType

SpecTokenType == InitTokenType /\ [][NextTokenType]_vars

\* ------------------------- FunnelForSequenceClassification: calls on one model
\* the forward calls that run on the one model instance
Passes == {1, 2}

\* labels of a call: none, a tensor of integer dtype, a tensor of float dtype
LabelKinds == {"none", "int", "float"}

\* a classifier model: FunnelBaseModel of two blocks, config.problem_type unset
ClassifierConfigs ==
    {[ separate_cls |-> FALSE, truncate_seq |-> FALSE, pool_q_only |-> FALSE,
       attention_type |-> "factorized", pooling_type |-> "mean",
       block_sizes |-> << 1, 1 >>, block_repeats |-> << 1, 1 >>,
       num_labels |-> k, problem_type |-> "None" ] : k \in 1..MaxNumLabels}

\* the problem type the forward stores into the configuration
problem_type_of(num_labels, labels) ==
    IF num_labels = 1 THEN "regression"
    ELSE IF num_labels > 1 /\ labels = "int" THEN "single_label_classification"
    ELSE "multi_label_classification"

\* the loss function chosen from config.problem_type
loss_fct_of(problem_type) ==
    CASE problem_type = "regression" -> "MSELoss"
      [] problem_type = "single_label_classification" -> "CrossEntropyLoss"
      [] problem_type = "multi_label_classification" -> "BCEWithLogitsLoss"
      [] OTHER -> "None"

\* the fields of the module objects the calls share
module_state ==
    [ pooling_mult |-> pooling_mult.encoder, seq_len |-> seq_len.encoder,
      problem_type |-> config.problem_type ]

PassIdle ==
    [ pc |-> "idle", n |-> 0, labels |-> "none", hidden |-> None, block_index |-> 0,
      read_mult |-> 0, loss |-> "None", end_state |-> None, after |-> {} ]

cls_unchanged == << pc, inputs, hidden, pooled_hidden, attention_inputs, pooling_flag,
                    block_index, layer_index, repeat_index, all_hidden_states,
                    upsampled_hidden, last_call, calls, frames, fn_in, fn_out >>

InitClassifier ==
    /\ config \in ClassifierConfigs
    /\ ModelIdle
    /\ passes = [p \in Passes |-> PassIdle]
    /\ frames = None
    /\ fn_in = None
    /\ fn_out = NotReturned

\* a call enters forward and reaches the encoder: init_attention_inputs stores
\* pooling_mult = 1 and seq_len on the attention structure (`after` notes the
\* calls that had returned by then)
ClsForward(p, n, labels) ==
    /\ passes[p].pc = "idle"
    /\ pooling_mult' = [pooling_mult EXCEPT !.encoder = 1]
    /\ seq_len' = [seq_len EXCEPT !.encoder = n]
    /\ passes' = [passes EXCEPT ![p] =
                      [@ EXCEPT !.pc = "block", !.n = n, !.labels = labels,
                                !.hidden = [i \in 1..n |-> {i - 1}], !.block_index = 0,
                                !.after = {q \in Passes : passes[q].pc = "done"}]]
    /\ UNCHANGED << config, cls_unchanged >>

\* the step of a call after block blk
after_block(cfg, blk) == IF blk + 1 < Len(cfg.block_sizes) THEN "block" ELSE "head"

\* a block is entered: without pooling its layers run; with pooling
\* `self.pooling_mult *= 2` first loads the attribute
ClsBlock(p) ==
    /\ passes[p].pc = "block"
    /\ LET me == passes[p]
       IN IF pooling_flag_of(config, me.hidden, me.block_index)
          THEN passes' = [passes EXCEPT ![p] =
                              [@ EXCEPT !.pc = "pool", !.read_mult = pooling_mult.encoder]]
          ELSE passes' = [passes EXCEPT ![p] =
                              [@ EXCEPT !.pc = after_block(config, me.block_index),
                                        !.hidden = FunnelLayer_forward(me.hidden, me.hidden,
                                                                       me.hidden, None),
                                        !.block_index = me.block_index + 1]]
    /\ UNCHANGED << config, pooling_mult, seq_len, cls_unchanged >>

\* `self.pooling_mult *= 2` stores the doubled value; the hidden state is pooled
\* and the block's layers run
ClsPool(p) ==
    /\ passes[p].pc = "pool"
    /\ LET me == passes[p]
           pooled == pool_hidden(config, me.hidden, config.pooling_type, 2)
       IN /\ pooling_mult' = [pooling_mult EXCEPT !.encoder = me.read_mult * 2]
          /\ passes' = [passes EXCEPT ![p] =
                            [@ EXCEPT !.pc = after_block(config, me.block_index),
                                      !.hidden = FunnelLayer_forward(pooled, pooled, pooled, None),
                                      !.block_index = me.block_index + 1]]
    /\ UNCHANGED << config, seq_len, cls_unchanged >>

\* the head: without labels the call returns; with labels it tests
\* `self.config.problem_type is None`
ClsHead(p) ==
    /\ passes[p].pc = "head"
    /\ LET me == passes[p]
       IN passes' = [passes EXCEPT ![p] =
                         IF me.labels = "none"
                         THEN [@ EXCEPT !.pc = "done", !.loss = "None",
                                        !.end_state = module_state]
                         ELSE IF config.problem_type = "None"
                         THEN [@ EXCEPT !.pc = "set_problem_type"]
                         ELSE [@ EXCEPT !.pc = "loss"]]
    /\ UNCHANGED << config, pooling_mult, seq_len, cls_unchanged >>

\* the call stores the problem type it derives from num_labels and its labels
ClsSetProblemType(p) ==
    /\ passes[p].pc = "set_problem_type"
    /\ config' = [config EXCEPT !.problem_type =
                      problem_type_of(config.num_labels, passes[p].labels)]
    /\ passes' = [passes EXCEPT ![p] = [@ EXCEPT !.pc = "loss"]]
    /\ UNCHANGED << pooling_mult, seq_len, cls_unchanged >>

\* the loss function is chosen from config.problem_type and the call returns
ClsLoss(p) ==
    /\ passes[p].pc = "loss"
    /\ passes' = [passes EXCEPT ![p] =
                      [@ EXCEPT !.pc = "done", !.loss = loss_fct_of(config.problem_type),
                                !.end_state = module_state]]
    /\ UNCHANGED << config, pooling_mult, seq_len, cls_unchanged >>

NextClassifier ==
    \/ \E p \in Passes, n \in 1..MaxCallLen, labels \in LabelKinds : ClsForward(p, n, labels)
    \/ \E p \in Passes : ClsBlock(p)
    \/ \E p \in Passes : ClsPool(p)
    \/ \E p \in Passes : ClsHead(p)
    \/ \E p \in Passes : ClsSetProblemType(p)
    \/ \E p \in Passes : ClsLoss(p)

SpecClassifier == InitClassifier /\ [][NextClassifier]_vars

\* ------------------------------------- the entry points and their arguments
\* the models whose forward takes input_ids / inputs_embeds
BackboneModels == {"FunnelBaseModel", "FunnelModel"}

HeadModels == {"FunnelForPreTraining", "FunnelForMaskedLM", "FunnelForSequenceClassification",
               "FunnelForMultipleChoice", "FunnelForTokenClassification",
               "FunnelForQuestionAnswering"}

\* a forward call: for each tensor argument whether it is passed (TRUE) or None
EntryInputs ==
    {[ op |-> "forward", model |-> e, input_ids |-> i, inputs_embeds |-> x,
       attention_mask |-> a, token_type_ids |-> t ] :
        e \in BackboneModels \cup HeadModels,
        i \in BOOLEAN, x \in BOOLEAN, a \in BOOLEAN, t \in BOOLEAN}

\* the progress of a call: where it is, what it has done to its inputs so far
\* and the exception that ended it
Running(at, events) == [returned |-> FALSE, value |-> [at |-> at, events |-> events,
                                                       error |-> "None"]]

Raised(error, events) == [returned |-> TRUE, value |-> [at |-> "raised", events |-> events,
                                                        error |-> error]]

InitEntry ==
    /\ config = None
    /\ ModelIdle
    /\ passes = None
    /\ frames = None
    /\ fn_in \in EntryInputs
    /\ fn_out = Running(IF fn_in.model \in HeadModels THEN "head" ELSE "backbone", << >>)

\* what FunnelForMultipleChoice.forward does to its inputs before it calls
\* self.funnel: num_choices reads a shape, then every passed tensor is reshaped
multiple_choice_prepare(call) ==
    (IF call.input_ids THEN << "input_ids.shape", "input_ids.view" >>
     ELSE << "inputs_embeds.shape" >>)
    \o (IF call.attention_mask THEN << "attention_mask.view" >> ELSE << >>)
    \o (IF call.token_type_ids THEN << "token_type_ids.view" >> ELSE << >>)
    \o (IF call.inputs_embeds THEN << "inputs_embeds.view" >> ELSE << >>)

\* the forward of a task head up to its call of self.funnel
EntryHead ==
    /\ fn_in.op = "forward"
    /\ ~fn_out.returned
    /\ fn_out.value.at = "head"
    /\ fn_out' =
           IF fn_in.model = "FunnelForMultipleChoice"
           THEN IF ~fn_in.input_ids /\ ~fn_in.inputs_embeds
                THEN Raised("AttributeError", << >>)
                ELSE Running("backbone", multiple_choice_prepare(fn_in))
           ELSE Running("backbone", << >>)
    /\ UNCHANGED << fwd_vars, passes, frames, fn_in >>

\* FunnelBaseModel.forward / FunnelModel.forward: the check of the arguments,
\* then the input shape, the embeddings and the encoder
EntryBackbone ==
    /\ fn_in.op = "forward"
    /\ ~fn_out.returned
    /\ fn_out.value.at = "backbone"
    /\ LET events == fn_out.value.events
       IN fn_out' =
              IF fn_in.input_ids /\ fn_in.inputs_embeds THEN Raised("ValueError", events)
              ELSE IF fn_in.input_ids
              THEN Returned([at |-> "returned",
                             events |-> events \o << "input_ids.shape", "embeddings", "encoder" >>,
                             error |-> "None"])
              ELSE IF fn_in.inputs_embeds
              THEN Returned([at |-> "returned",
                             events |-> events \o << "inputs_embeds.shape", "embeddings",
                                                     "encoder" >>,
                             error |-> "None"])
              ELSE Raised("ValueError", events)
    /\ UNCHANGED << fwd_vars, passes, frames, fn_in >>

NextEntry ==
    \/ EntryHead
    \/ EntryBackbone

SpecEntry == InitEntry /\ [][NextEntry]_vars

\* ---------------------------------- pooling types pool_tensor does not know
UnsupportedModes == {"sum", "Mean"}

\* the configurations (one repeat, one decoder layer) with such a pooling_type
UnsupportedConfigs ==
    {[c EXCEPT !.pooling_type = m] :
        c \in {d \in Configs : d.block_repeats[1] = 1 /\ d.num_decoder_layers = 1},
        m \in UnsupportedModes}

\* direct calls of pool_tensor with any mode, on a tensor or on None
AnyModePoolInputs ==
    {[ op |-> "pool_tensor", cfg |-> [separate_cls |-> s, truncate_seq |-> t],
       tensor |-> x, mode |-> m, stride |-> 2 ] :
        s \in BOOLEAN, t \in BOOLEAN, m \in supported_modes \cup UnsupportedModes,
        x \in {None} \cup UNION {[1..len -> {0, 2}] : len \in 1..2}}

\* either a model with an unsupported pooling_type, or a direct call
InitUnsupported ==
    /\ ModelIdle
    /\ passes = None
    /\ frames = None
    /\ fn_out = NotReturned
    /\ \/ config \in UnsupportedConfigs /\ fn_in = None
       \/ config = None /\ fn_in \in AnyModePoolInputs

NextUnsupported ==
    \/ Next
    \/ ApplyPool

SpecUnsupported == InitUnsupported /\ [][NextUnsupported]_vars

\* ------------------------- FunnelForQuestionAnswering: the loss's positions
\* Tensor.clamp(lo, hi)
clamp(x, lo, hi) == IF x < lo THEN lo ELSE IF x > hi THEN hi ELSE x

\* the targets CrossEntropyLoss(ignore_index) averages over: the batch entries
\* whose target is not the ignored index, each with its target class
loss_terms(targets, ignore_index) ==
    {<< b, targets[b] >> : b \in {c \in DOMAIN targets : targets[c] # ignore_index}}

\* the part of FunnelForQuestionAnswering.forward that computes total_loss
question_answering_loss(sequence_length, start_positions, end_positions) ==
    LET ignored_index == sequence_length
        starts == [b \in DOMAIN start_positions |-> clamp(start_positions[b], 0, ignored_index)]
        ends == [b \in DOMAIN end_positions |-> clamp(end_positions[b], 0, ignored_index)]
    IN [ ignored_index |-> ignored_index,
         start_positions |-> starts,
         end_positions |-> ends,
         start_terms |-> loss_terms(starts, ignored_index),
         end_terms |-> loss_terms(ends, ignored_index) ]

\* positions from MaxOutside below the sequence to MaxOutside beyond its end
QAInputs ==
    {[ op |-> "question_answering_loss", sequence_length |-> len,
       start_positions |-> sp, end_positions |-> ep ] :
        len \in 1..MaxQALen,
        sp \in UNION {[1..b -> (0 - MaxOutside)..(MaxQALen + MaxOutside)] : b \in 1..MaxBatch},
        ep \in UNION {[1..b -> (0 - MaxOutside)..(MaxQALen + MaxOutside)] : b \in 1..MaxBatch}}

InitQA ==
    /\ config = None
    /\ ModelIdle
    /\ passes = None
    /\ frames = None
    /\ fn_in \in {c \in QAInputs : Len(c.start_positions) = Len(c.end_positions)}
    /\ fn_out = NotReturned

ApplyQALoss ==
    /\ fn_in.op = "question_answering_loss"
    /\ ~fn_out.returned
    /\ fn_out' = Returned(question_answering_loss(fn_in.sequence_length, fn_in.start_positions,
                                                  fn_in.end_positions))
    /\ UNCHANGED << fwd_vars, passes, frames, fn_in >>

NextQA == ApplyQALoss

SpecQA == InitQA /\ [][NextQA]_vars

\* --------------------------------------------- direct calls: stride_pool_pos
\* the calls get_position_embeds makes (pos_id the position ids of block
\* block_index - 1 of an input of length from_len) and calls on other small
\* vectors (from_len 0)
PosPoolInputs ==
    {[ op |-> "stride_pool_pos", cfg |-> [separate_cls |-> s, truncate_seq |-> t],
       pos_id |-> block_pos([separate_cls |-> s, truncate_seq |-> t], n, b - 1),
       block_index |-> b, from_len |-> n ] :
        s \in BOOLEAN, t \in BOOLEAN, n \in 1..MaxSeqLen, b \in 1..MaxBlocks}
    \cup
    {[ op |-> "stride_pool_pos", cfg |-> [separate_cls |-> s, truncate_seq |-> t],
       pos_id |-> x, block_index |-> b, from_len |-> 0 ] :
        s \in BOOLEAN, t \in BOOLEAN, b \in 1..MaxBlocks,
        x \in UNION {[1..len -> {0, 1, 7}] : len \in 1..3}}

InitPosPool ==
    /\ config = None
    /\ ModelIdle
    /\ passes = None
    /\ frames = None
    /\ fn_in \in PosPoolInputs
    /\ fn_out = NotReturned

ApplyPosPool ==
    /\ fn_in.op = "stride_pool_pos"
    /\ ~fn_out.returned
    /\ fn_out' = Returned(stride_pool_pos(fn_in.cfg, fn_in.pos_id, fn_in.block_index))
    /\ UNCHANGED << fwd_vars, passes, frames, fn_in >>

NextPosPool == ApplyPosPool

SpecPosPool == InitPosPool /\ [][NextPosPool]_vars

\* ------------------------------------------------- direct calls: stride_pool
\* a vector whose entry at index i is i, a matrix whose entry (i, j) is <<i, j>>
IndexVector(n) == [i \in 1..n |-> i - 1]

IndexMatrix(rows, cols) == [i \in 1..rows |-> [j \in 1..cols |-> << i - 1, j - 1 >>]]

PoolFlags == {[separate_cls |-> s, truncate_seq |-> t] : s \in BOOLEAN, t \in BOOLEAN}

\* calls with None
StridePoolNones ==
    {[ op |-> "stride_pool", cfg |-> f, container |-> "None", tensor |-> None,
       axes |-> << a >>, axis_is_list |-> FALSE, ndim |-> 1 ] :
        f \in PoolFlags, a \in {0, 1}}

\* calls with a vector, along axis 0 or -1
StridePoolVectors ==
    {[ op |-> "stride_pool", cfg |-> f, container |-> "tensor", tensor |-> IndexVector(n),
       axes |-> << a >>, axis_is_list |-> FALSE, ndim |-> 1 ] :
        f \in PoolFlags, n \in 1..MaxPoolLen, a \in {0, -1}}

\* calls with a matrix, along one axis (negative ones too) or along a list of
\* axes ([1, 2] as for cls_mask: 2 is axis 0 of a matrix)
StridePoolMatrices ==
    {[ op |-> "stride_pool", cfg |-> f, container |-> "tensor",
       tensor |-> IndexMatrix(r, c), axes |-> ax.axes, axis_is_list |-> ax.is_list,
       ndim |-> 2 ] :
        f \in PoolFlags, r \in 1..MaxPoolLen, c \in 1..MaxPoolLen,
        ax \in {[axes |-> << a >>, is_list |-> FALSE] : a \in {0, 1, -1, -2}}
               \cup {[axes |-> l, is_list |-> TRUE] : l \in {<< 0, 1 >>, << 1, 2 >>, << 1 >>}}}

\* calls with a tuple or a list of two vectors
StridePoolContainers ==
    {[ op |-> "stride_pool", cfg |-> f, container |-> k,
       tensor |-> << IndexVector(n1), IndexVector(n2) >>,
       axes |-> << 0 >>, axis_is_list |-> l, ndim |-> 1 ] :
        f \in PoolFlags, k \in {"tuple", "list"}, n1 \in 1..MaxPoolLen, n2 \in 1..MaxPoolLen,
        l \in BOOLEAN}

InitStridePool ==
    /\ config = None
    /\ ModelIdle
    /\ passes = None
    /\ frames = None
    /\ \/ fn_in \in StridePoolNones
       \/ fn_in \in StridePoolVectors
       \/ fn_in \in StridePoolMatrices
       \/ fn_in \in StridePoolContainers
    /\ fn_out = NotReturned

ApplyStridePool ==
    /\ fn_in.op = "stride_pool"
    /\ ~fn_out.returned
    /\ fn_out' = Returned(stride_pool_call(fn_in.cfg, fn_in))
    /\ UNCHANGED << fwd_vars, passes, frames, fn_in >>

NextStridePool == ApplyStridePool

SpecStridePool == InitStridePool /\ [][NextStridePool]_vars

\* ------------------------------ direct calls: pool_tensor on a tuple or list
\* the vectors put in a container
ContainerItems == UNION {[1..len -> PoolValues] : len \in 1..2}

\* tuples and lists of zero to MaxItems vectors
PoolContainerInputs ==
    {[ op |-> "pool_tensor", cfg |-> [separate_cls |-> s, truncate_seq |-> t],
       container |-> k, tensor |-> x, mode |-> "mean", stride |-> 2 ] :
        s \in BOOLEAN, t \in BOOLEAN, k \in {"tuple", "list"},
        x \in UNION {[1..items -> ContainerItems] : items \in 0..MaxItems}}

InitPoolContainer ==
    /\ config = None
    /\ ModelIdle
    /\ passes = None
    /\ frames = None
    /\ fn_in \in PoolContainerInputs
    /\ fn_out = NotReturned

\* a call of pool_tensor with a tuple or list: its generator has produced
\* `items` and is at element `next` of `tensor`
Frame(tensor) == [tensor |-> tensor, next |-> 1, items |-> << >>]

\* pool_tensor is entered: by the caller with its argument, or by the generator
\* of the innermost call, which passes that call's own `tensor` rather than
\* the element x it is at
PoolTensorEnter ==
    /\ fn_in.op = "pool_tensor"
    /\ ~fn_out.returned
    /\ Len(frames) < RecursionLimit
    /\ \/ /\ frames = << >>
          /\ frames' = << Frame(fn_in.tensor) >>
       \/ /\ frames # << >>
          /\ LET top == frames[Len(frames)]
             IN /\ top.next <= Len(top.tensor)
                /\ frames' = Append(frames, Frame(top.tensor))
    /\ UNCHANGED << fwd_vars, passes, fn_in, fn_out >>

\* the generator of the innermost call is exhausted: the call returns the
\* container built of its items, to the generator that called it or to the caller
PoolTensorReturn ==
    /\ fn_in.op = "pool_tensor"
    /\ ~fn_out.returned
    /\ frames # << >>
    /\ LET depth == Len(frames)
           top == frames[depth]
           value == [container |-> fn_in.container, items |-> top.items]
       IN /\ top.next > Len(top.tensor)
          /\ IF depth = 1
             THEN /\ frames' = << >>
                  /\ fn_out' = Returned([result |-> value, error |-> "None"])
             ELSE /\ frames' = [SubSeq(frames, 1, depth - 1) EXCEPT ![depth - 1] =
                                    [@ EXCEPT !.items = Append(@, value), !.next = @ + 1]]
                  /\ UNCHANGED fn_out
    /\ UNCHANGED << fwd_vars, passes, fn_in >>

\* the interpreter's recursion limit is reached: RecursionError unwinds the stack
PoolTensorRecursionError ==
    /\ fn_in.op = "pool_tensor"
    /\ ~fn_out.returned
    /\ Len(frames) = RecursionLimit
    /\ frames[Len(frames)].next <= Len(frames[Len(frames)].tensor)
    /\ frames' = << >>
    /\ fn_out' = Returned([ result |-> [container |-> "None", items |-> << >>],
                            error |-> "RecursionError" ])
    /\ UNCHANGED << fwd_vars, passes, fn_in >>

NextPoolContainer == PoolTensorEnter \/ PoolTensorReturn \/ PoolTensorRecursionError

SpecPoolContainer == InitPoolContainer /\ [][NextPoolContainer]_vars

\* ---------------------------------- passes with relative-shift attention
\* the relative-shift configurations, with one decoder layer
RelShiftConfigs ==
    {c \in Configs : c.attention_type = "relative_shift" /\ c.num_decoder_layers = 1}

InitRelShift ==
    /\ config \in RelShiftConfigs
    /\ ModelIdle
    /\ passes = None
    /\ frames = None
    /\ fn_in = None
    /\ fn_out = NotReturned

SpecRelShift == InitRelShift /\ [][Next]_vars

\* ------------------------- direct calls: one pooling step, all three routines
\* a sequence of n positions handed to pool_tensor (as a tensor of the mode's
\* values), to stride_pool (along axis 0) and to stride_pool_pos (as the
\* position ids of block blk - 1)
PoolStepInputs ==
    {[ op |-> "pooling_step", cfg |-> f, n |-> n, mode |-> md, blk |-> blk ] :
        f \in PoolFlags, n \in 1..MaxSeqLen, md \in supported_modes, blk \in 1..MaxBlocks}

InitPoolStep ==
    /\ config = None
    /\ ModelIdle
    /\ passes = None
    /\ frames = None
    /\ fn_in \in PoolStepInputs
    /\ fn_out = NotReturned

ApplyPoolStep ==
    /\ fn_in.op = "pooling_step"
    /\ ~fn_out.returned
    /\ fn_out' = Returned(
           [ pool_tensor |-> pool_tensor(fn_in.cfg, [i \in 1..fn_in.n |-> 2 * i], fn_in.mode, 2),
             windows |-> pool_hidden(fn_in.cfg, [i \in 1..fn_in.n |-> {i - 1}], fn_in.mode, 2),
             stride_pool |-> stride_pool(fn_in.cfg, IndexVector(fn_in.n), 0, 1),
             stride_pool_pos |-> stride_pool_pos(fn_in.cfg, IndexVector(fn_in.n), fn_in.blk) ])
    /\ UNCHANGED << fwd_vars, passes, frames, fn_in >>

NextPoolStep == ApplyPoolStep

SpecPoolStep == InitPoolStep /\ [][NextPoolStep]_vars

\* ------------------------------------------ passes with an attention mask
\* factorized configurations with one layer per block and one decoder layer
MaskConfigs ==
    {c \in Configs : /\ c.attention_type = "factorized"
                     /\ c.block_sizes[1] = 1
                     /\ c.num_decoder_layers = 1}

\* the 0/1 attention masks of a batch entry
Masks(n) == [1..n -> {0, 1}]

InitMask ==
    /\ config \in MaskConfigs
    /\ ModelIdle
    /\ passes = None
    /\ frames = None
    /\ fn_in = None
    /\ fn_out = NotReturned

NextMask ==
    \/ \E n \in 1..MaxMaskLen : \E attention_mask \in Masks(n) : ForwardWith(n, attention_mask)
    \/ EncoderBlock
    \/ EncoderLayer
    \/ DecoderStart
    \/ DecoderLayer

SpecMask == InitMask /\ [][NextMask]_vars

\* ------------------------------------------------------------------ claims
\* the position embeddings of the relative-shift branch are in place
RelShiftBuilt ==
    /\ pc \notin {"idle", "error"}
    /\ config.attention_type = "relative_shift"

\* C1 as stated: every relative_pos call made while building the relative-shift
\* position embeddings returns exactly len(pooled_pos) elements (the vectors
\* gathered for block b: the one of shift 1 and, for b > 0, the one of shift 2,
\* both with pooled_pos the position ids of block b).
C1_LenIsPooledLen ==
    RelShiftBuilt =>
        \A b \in 1..num_blocks :
            LET pooled_pos == block_pos(config, seq_len.encoder, b - 1)
                embeds == attention_inputs.position_embeds[b]
            IN /\ Len(embeds[1]) = Len(pooled_pos)
               /\ b > 1 => Len(embeds[2]) = Len(pooled_pos)

\* C1 amended: relative_pos returns len(pos) + shift * len(pooled_pos) elements:
\* 2 * len(pos) for the shift-1 call (pooled_pos = pos), and
\* len(pos) + 2 * len(pooled_pos) for the shift-2 call of block b > 0.
C1_LenIsPosPlusShiftPooled ==
    RelShiftBuilt =>
        \A b \in 1..num_blocks :
            LET pooled_pos == block_pos(config, seq_len.encoder, b - 1)
                pos == block_pos(config, seq_len.encoder, IF b > 1 THEN b - 2 ELSE 0)
                embeds == attention_inputs.position_embeds[b]
            IN /\ Len(embeds[1]) = 2 * Len(pooled_pos)
               /\ b > 1 => Len(embeds[2]) = Len(pos) + 2 * Len(pooled_pos)

\* C1 witness: a three-block relative-shift pass over 9 positions has built its
\* embeddings and reached the last block
C1_Witness ==
    /\ RelShiftBuilt
    /\ num_blocks = 3
    /\ seq_len.encoder = 9
    /\ block_index = 2
    /\ pc = "layer"
    /\ Len(attention_inputs.position_embeds[3][2]) > 0

\* the gather was applied with shift 1 to a tensor with seq_len = context_len
\* whose relative-offset axis holds the 2 * context_len offsets relative_pos gives
GatherShift1 ==
    /\ fn_out.returned
    /\ fn_in.op = "relative_shift_gather"
    /\ fn_in.shift = 1
    /\ Len(fn_in.positional_attn) = fn_in.context_len
    /\ Len(fn_in.positional_attn[1]) >= 2 * fn_in.context_len

PoolReturned == fn_out.returned /\ fn_in.op = "pool_tensor" /\ fn_in.stride = 2

\* C5 as stated: pool_tensor with stride 2 on a tensor of sequence length L
\* returns exactly ceil(L / 2) positions, for every mode and every setting of
\* separate_cls and truncate_seq.
C5_PoolLenIsCeilHalf ==
    PoolReturned => Len(fn_out.value.result) = CeilDiv(Len(fn_in.tensor), 2)

\* C5 amended: pool_tensor with stride 2 returns ceil(L / 2) positions when
\* separate_cls is off or truncate_seq is on, and 1 + ceil((L - 1) / 2)
\* positions (the class token and the pooled rest) when separate_cls is on and
\* truncate_seq is off, for every mode.
C5_PoolLen ==
    PoolReturned =>
        Len(fn_out.value.result) =
            IF fn_in.cfg.separate_cls /\ ~fn_in.cfg.truncate_seq
            THEN 1 + CeilDiv(Len(fn_in.tensor) - 1, 2)
            ELSE CeilDiv(Len(fn_in.tensor), 2)

\* C5 witness: an even length pooled with separate_cls on and truncate_seq off
C5_Witness ==
    /\ PoolReturned
    /\ fn_in.cfg.separate_cls /\ ~fn_in.cfg.truncate_seq
    /\ Len(fn_in.tensor) = 4
    /\ Len(fn_out.value.result) = 3

\* pool_tensor(mode = mean, stride = 2) returned for length 5 under separate_cls
PoolMeanCls5 ==
    /\ PoolReturned
    /\ fn_in.mode = "mean"
    /\ fn_in.cfg.separate_cls
    /\ Len(fn_in.tensor) = 5

\* C6 as stated: mean pooling of length 5 under separate_cls returns 3
\* positions, position 0 is the class token unchanged, and the window of the
\* last output covers input index 4 alone.
C6_LastWindowIsIndex4 ==
    PoolMeanCls5 =>
        /\ Len(fn_out.value.result) = 3
        /\ fn_out.value.result[1] = fn_in.tensor[1]
        /\ fn_out.value.windows[3] = {4}

\* C6 amended: mean pooling of length 5 under separate_cls returns 3 positions,
\* position 0 is the class token unchanged (the mean of two copies of it), and
\* the window of the last output covers input indices 3 and 4 when truncate_seq
\* is off and input index 3 alone when truncate_seq is on (index 4 is dropped).
C6_LastWindow ==
    PoolMeanCls5 =>
        /\ Len(fn_out.value.result) = 3
        /\ fn_out.value.result[1] = fn_in.tensor[1]
        /\ fn_out.value.windows[1] = {0}
        /\ fn_out.value.windows[2] = {1, 2}
        /\ IF fn_in.cfg.truncate_seq
           THEN fn_out.value.windows[3] = {3}
           ELSE fn_out.value.windows[3] = {3, 4}

\* C6 witness: the class token 4 followed by other values, truncate_seq on
C6_Witness ==
    /\ PoolMeanCls5
    /\ fn_in.cfg.truncate_seq
    /\ fn_in.tensor = << 4, 0, 2, 2, 0 >>
    /\ fn_out.value.result[1] = 4
    /\ fn_out.value.result[2] = 1
    /\ fn_out.value.windows[3] = {3}

TokenTypeReturned == fn_out.returned /\ fn_in.op = "token_type_ids_to_mat"

\* C7: for every batch row and all positions i, j, mat[i][j] is true exactly
\* when ids[i] = ids[j] or ids[i] = 2 or ids[j] = 2; for ids [2,0,0,1,1] row and
\* column 0 are all true, positions 1-2 are true among themselves and false
\* against 3-4, and positions 3-4 are true among themselves.
C7_TokenTypeMat ==
    TokenTypeReturned =>
        \A b \in DOMAIN fn_in.token_type_ids :
            LET ids == fn_in.token_type_ids[b]
                mat == fn_out.value[b]
            IN /\ DOMAIN mat = DOMAIN ids
               /\ \A i, j \in DOMAIN ids :
                     mat[i][j] = (ids[i] = ids[j] \/ ids[i] = 2 \/ ids[j] = 2)
               /\ ids = << 2, 0, 0, 1, 1 >> =>
                     mat = << << TRUE, TRUE, TRUE, TRUE, TRUE >>,
                              << TRUE, TRUE, TRUE, FALSE, FALSE >>,
                              << TRUE, TRUE, TRUE, FALSE, FALSE >>,
                              << TRUE, FALSE, FALSE, TRUE, TRUE >>,
                              << TRUE, FALSE, FALSE, TRUE, TRUE >> >>

\* C7 witness: the matrix of the segment ids [2,0,0,1,1] was computed
C7_Witness ==
    /\ TokenTypeReturned
    /\ fn_in.token_type_ids[1] = << 2, 0, 0, 1, 1 >>
    /\ fn_out.value[1][1][4]
    /\ ~fn_out.value[1][2][4]

\* the configuration of the end-to-end case: two blocks of two layers,
\* factorized attention, separate_cls, an input of length 9
EndToEndCase ==
    /\ pc # "idle"
    /\ config.block_sizes = << 2, 2 >>
    /\ config.attention_type = "factorized"
    /\ config.separate_cls
    /\ seq_len.encoder = 9

\* C3 as stated: in the end-to-end case the encoder's last hidden state has
\* sequence length 3 and the decoder's output has sequence length 9.
C3_EncoderLen3 ==
    EndToEndCase =>
        /\ pc = "decoder" => Len(hidden) = 3
        /\ pc = "done" => Len(hidden) = 9

\* C3 amended: in the end-to-end case the encoder's last hidden state has
\* sequence length 5 (two blocks pool once: 9 -> 5) and the decoder's output
\* has sequence length 9.
C3_EncoderLen5 ==
    EndToEndCase =>
        /\ pc # "error"
        /\ pc = "decoder" => Len(hidden) = 5
        /\ pc = "done" => Len(hidden) = 9

\* C3 witness: the end-to-end case has run to the end of the decoder
C3_Witness ==
    /\ EndToEndCase
    /\ pc = "done"
    /\ Len(all_hidden_states[Len(all_hidden_states)]) = 5

\* C4: for every input length, number of blocks and setting of separate_cls,
\* truncate_seq and pool_q_only, the upsampled final hidden state has exactly
\* the input's sequence length, so the addition to the block-0 hidden state
\* (of that length) is defined.
C4_UpsampleRestoresLen ==
    /\ pc # "error"
    /\ pc \in {"decoder_layer", "done"} =>
          /\ Len(upsampled_hidden) = seq_len.encoder
          /\ Len(all_hidden_states[config.block_sizes[1] + 1]) = seq_len.encoder
          /\ Len(hidden) = seq_len.encoder

\* C4 witness: three blocks under separate_cls and truncate_seq pooled an input
\* of length 8 down to 2 positions, and the decoder has upsampled them
C4_Witness ==
    /\ pc = "decoder_layer"
    /\ num_blocks = 3
    /\ config.separate_cls /\ config.truncate_seq
    /\ seq_len.encoder = 8
    /\ Len(all_hidden_states[Len(all_hidden_states)]) = 2
    /\ Len(upsampled_hidden) = 8

\* C8: under separate_cls, in every attention call of the encoder and of the
\* decoder the class-token mask has the shape [q_len, kv_len] of the scores and
\* multiplies the positional and token-type scores by 0 for exactly the pairs
\* whose query index or key index is 0, and by 1 for every other pair.
C8_ClsMaskZeroesClsPairs ==
    (last_call # None /\ config.separate_cls) =>
        LET factor == last_call.bias_factor
        IN /\ factor # None
           /\ Len(factor) = Len(last_call.query)
           /\ \A i \in DOMAIN factor :
                 /\ Len(factor[i]) = Len(last_call.key)
                 /\ \A j \in DOMAIN factor[i] :
                       factor[i][j] = IF i = 1 \/ j = 1 THEN 0 ELSE 1

\* C8 witness: the first layer of block 2 under pool_q_only and separate_cls,
\* pooled queries against unpooled keys, after the pooling of block 1
C8_Witness ==
    /\ last_call # None
    /\ config.separate_cls /\ config.pool_q_only
    /\ last_call.part = "encoder"
    /\ last_call.block_index = 2
    /\ Len(last_call.query) = 3
    /\ Len(last_call.key) = 5
    /\ last_call.bias_factor[1][2] = 0
    /\ last_call.bias_factor[2][2] = 1

\* the entries of the call log that belong to block b and operation op
CallsOf(b, op) == {k \in DOMAIN calls : calls[k].block = b /\ calls[k].op = op}

\* C9: in block 0 no pooling call is made; in a block b > 0 whose pooling flag
\* is set pre_attention_pooling is called exactly once, before the block's
\* first layer application, which takes the pooled hidden state as query (as
\* key and value too unless pool_q_only, which takes the unpooled one) and is
\* directly followed by the one post_attention_pooling call; every other layer
\* application takes the current hidden state as query, key and value.
C9_PoolingOrder ==
    \A b \in 0..(num_blocks - 1) :
        LET pre == CallsOf(b, "pre_attention_pooling")
            post == CallsOf(b, "post_attention_pooling")
            lay == CallsOf(b, "layer")
        IN /\ b = 0 => (pre = {} /\ post = {})
           /\ Cardinality(pre) <= 1
           /\ Cardinality(post) <= 1
           /\ (pc = "layer" /\ block_index = b) => (pooling_flag <=> pre # {})
           /\ post # {} => pre # {}
           /\ \A p \in pre :
                 /\ \A l \in lay : p < l
                 /\ lay # {} =>
                       /\ p + 1 \in lay
                       /\ calls[p + 1].query = "pooled_hidden"
                       /\ calls[p + 1].q_len = calls[p].q_len
                       /\ calls[p + 1].key = IF config.pool_q_only THEN "hidden"
                                             ELSE "pooled_hidden"
                       /\ calls[p + 1].kv_len = IF config.pool_q_only THEN calls[p].kv_len
                                                ELSE calls[p].q_len
                       /\ p + 2 \in post
           /\ \A l \in lay :
                 (l - 1) \notin pre =>
                     /\ calls[l].query = "hidden"
                     /\ calls[l].key = "hidden"
                     /\ calls[l].q_len = calls[l].kv_len

\* C9 witness: block 1 of a pool_q_only pass has pooled, applied its first layer
\* and a later one
C9_Witness ==
    /\ config.pool_q_only
    /\ pc = "block"
    /\ block_index = 2
    /\ Cardinality(CallsOf(1, "layer")) = 4
    /\ CallsOf(1, "pre_attention_pooling") # {}
    /\ CallsOf(1, "post_attention_pooling") # {}

\* the number of layer applications among the first k entries of the call log
LayerOrdinal(k) == Cardinality({l \in 1..k : calls[l].op = "layer"})

\* C10: the encoder pools on entering block b > 0 exactly when the hidden
\* sequence length is then greater than 1 (greater than 2 under separate_cls);
\* a block entered without pooling leaves the hidden length unchanged; and no
\* layer application of the encoder increases the hidden length or takes it
\* below 1.
C10_PoolingThreshold ==
    /\ (pc = "layer" /\ layer_index = 0 /\ repeat_index = 0) =>
          /\ pooling_flag <=>
                (block_index > 0 /\ Len(hidden) > (IF config.separate_cls THEN 2 ELSE 1))
          /\ pooling_flag <=> CallsOf(block_index, "pre_attention_pooling") # {}
          /\ pooling_flag => Len(pooled_hidden) < Len(hidden)
    /\ \A k \in DOMAIN calls :
          calls[k].op = "layer" =>
              LET before == all_hidden_states[LayerOrdinal(k)]
                  after == all_hidden_states[LayerOrdinal(k) + 1]
              IN /\ Len(after) <= Len(before)
                 /\ Len(after) >= 1
                 /\ CallsOf(calls[k].block, "pre_attention_pooling") = {} =>
                       Len(after) = Len(before)

\* C10 witness: under separate_cls and truncate_seq an input of length 4 was
\* pooled to 2 positions in block 1, and block 2 is entered without pooling
C10_Witness ==
    /\ pc = "layer"
    /\ block_index = 2
    /\ ~pooling_flag
    /\ config.separate_cls /\ config.truncate_seq
    /\ seq_len.encoder = 4
    /\ Len(hidden) = 2
    /\ CallsOf(1, "pre_attention_pooling") # {}
    /\ CallsOf(2, "pre_attention_pooling") = {}

\* the pooling of the block being run is complete: the next layer application
\* is not the one that post_attention_pooling follows
PoolingCompleted ==
    /\ pc = "layer"
    /\ ~config.pool_q_only \/ ~do_pooling_at(repeat_index, layer_index, pooling_flag)

\* the blocks up to b whose pooling flag was set
PooledBlocks(b) == {c \in 1..b : CallsOf(c, "pre_attention_pooling") # {}}

\* the shortest input for which every block 1..b pools
MinLenToPool(cfg, b) ==
    IF ~cfg.separate_cls THEN Pow2(b - 1) + 1
    ELSE IF cfg.truncate_seq THEN Pow2(b) + 1
    ELSE Pow2(b - 1) + 2

\* consecutive gathered relative positions lie `stride` apart
RowsAreStrideApart(embeds, stride) ==
    \A t \in 1..(Len(embeds) - 1) :
        (embeds[t] # << >> /\ embeds[t + 1] # << >>) =>
            embeds[t][1] - embeds[t + 1][1] = stride

\* the decoder's upsampled tensor repeats each position of the encoder's last
\* hidden state `stride` times (the class token once under separate_cls)
UpsampledWithStride(stride) ==
    LET final == all_hidden_states[Len(all_hidden_states)]
    IN IF stride = 1 THEN upsampled_hidden = final
       ELSE \A j \in DOMAIN upsampled_hidden :
               IF ~config.separate_cls
               THEN upsampled_hidden[j] = final[((j - 1) \div stride) + 1]
               ELSE IF j = 1 THEN upsampled_hidden[j] = final[1]
               ELSE LET idx == ((j - 2) \div stride) + 2
                    IN upsampled_hidden[j] =
                           IF idx <= Len(final) THEN final[idx] ELSE ZeroPosition

\* C11 as stated: for every input length and number of blocks, while the layers
\* of block b run after the block's pooling is complete, pooling_mult = 2^b.
C11_MultIsPow2OfBlock ==
    PoolingCompleted => pooling_mult.encoder = Pow2(block_index)

\* C11 amended: init_attention_inputs sets pooling_mult to 1; while the layers
\* of block b run after the block's pooling is complete, pooling_mult = 2^p with
\* p the number of blocks 1..b that pooled (these are the blocks 1..p), which
\* is 2^b exactly when the input is long enough for every block up to b to pool;
\* without separate_cls the layers' query length is ceil(n / pooling_mult).  The
\* position encodings of block b are built with stride 2^b (2^(b-1) for the
\* pooled-query / unpooled-key term) and the decoder upsamples with stride
\* 2^(num_blocks - 1), both whether or not the blocks pooled.
C11_MultIsPow2OfPooled ==
    /\ pc = "block" /\ block_index = 0 => pooling_mult.encoder = 1
    /\ PoolingCompleted =>
          LET b == block_index
              p == Cardinality(PooledBlocks(b))
          IN /\ pooling_mult.encoder = Pow2(p)
             /\ PooledBlocks(b) = 1..p
             /\ (pooling_mult.encoder = Pow2(b)) <=>
                    (b = 0 \/ seq_len.encoder >= MinLenToPool(config, b))
             /\ ~config.separate_cls =>
                    Len(IF do_pooling_at(repeat_index, layer_index, pooling_flag)
                        THEN pooled_hidden ELSE hidden)
                        = CeilDiv(seq_len.encoder, pooling_mult.encoder)
             /\ config.attention_type = "relative_shift" =>
                    /\ RowsAreStrideApart(attention_inputs.position_embeds[b + 1][1], Pow2(b))
                    /\ b > 0 => RowsAreStrideApart(attention_inputs.position_embeds[b + 1][2],
                                                   Pow2(b - 1))
    /\ pc \in {"decoder_layer", "done"} =>
          /\ UpsampledWithStride(Pow2(num_blocks - 1))
          /\ pooling_mult.decoder = 1

\* C11 witness: an input of length 2 without separate_cls pooled in block 1 and
\* not in block 2, whose layers run with pooling_mult = 2
C11_Witness ==
    /\ PoolingCompleted
    /\ ~config.separate_cls
    /\ seq_len.encoder = 2
    /\ block_index = 2
    /\ PooledBlocks(2) = {1}
    /\ pooling_mult.encoder = 2

\* the encoder run by one call with no other call on the model: the hidden
\* state it returns and the pooling_mult it leaves
RECURSIVE encoder_alone(_, _, _, _)
encoder_alone(cfg, hid, blk, mult) ==
    IF blk >= Len(cfg.block_sizes) THEN [hidden |-> hid, pooling_mult |-> mult]
    ELSE IF pooling_flag_of(cfg, hid, blk)
    THEN encoder_alone(cfg, pool_hidden(cfg, hid, cfg.pooling_type, 2), blk + 1, mult * 2)
    ELSE encoder_alone(cfg, hid, blk + 1, mult)

\* what a call with these inputs returns and leaves on a fresh model when it
\* is the only call
RunsAlone(cfg, n, labels) ==
    LET enc == encoder_alone(cfg, [i \in 1..n |-> {i - 1}], 0, 1)
        problem_type == IF labels = "none" THEN "None"
                        ELSE problem_type_of(cfg.num_labels, labels)
    IN [ hidden |-> enc.hidden,
         loss |-> loss_fct_of(problem_type),
         end_state |-> [ pooling_mult |-> enc.pooling_mult, seq_len |-> n,
                         problem_type |-> problem_type ] ]

\* C12 as stated: no forward call writes an instance or configuration field
\* (pooling_mult, seq_len and config.problem_type stay as constructed), and in
\* every interleaving of two calls each call ends with the outputs and the
\* module state it ends with when it runs alone.
C12_NoSharedStateWritten ==
    /\ pooling_mult.encoder = 0
    /\ seq_len.encoder = 0
    /\ config.problem_type = "None"
    /\ \A p \in Passes :
          passes[p].pc = "done" =>
              LET alone == RunsAlone(config, passes[p].n, passes[p].labels)
              IN /\ passes[p].hidden = alone.hidden
                 /\ passes[p].loss = alone.loss
                 /\ passes[p].end_state = alone.end_state

\* C12 witness: two interleaved calls have returned; the call on the longer
\* input pooled once but found pooling_mult = 1 at its end, and the call with
\* float labels computed the loss of the other call's problem type
C12_Witness ==
    /\ config.num_labels = 2
    /\ passes[1].pc = "done" /\ passes[2].pc = "done"
    /\ passes[1].after = {} /\ passes[2].after = {}
    /\ passes[1].n = 2 /\ passes[1].labels = "int"
    /\ passes[2].n = 1 /\ passes[2].labels = "float"
    /\ Len(passes[1].hidden) = 1
    /\ passes[1].end_state.pooling_mult = 1
    /\ passes[2].loss = "CrossEntropyLoss"

\* a forward call was given both input_ids and inputs_embeds, or neither
BothOrNeither == fn_in.op = "forward" /\ (fn_in.input_ids <=> fn_in.inputs_embeds)

\* C13 as stated: every entry point called with both input_ids and
\* inputs_embeds, or with neither, ends in ValueError, and has by then done no
\* shape access, reshaping, embedding lookup or encoder computation.
C13_ValueErrorBeforeComputation ==
    (BothOrNeither /\ fn_out.returned) =>
        /\ fn_out.value.error = "ValueError"
        /\ fn_out.value.events = << >>

\* C13 witness: FunnelForMultipleChoice called with neither argument ended in
\* the AttributeError of `inputs_embeds.shape` on None
C13_Witness ==
    /\ BothOrNeither
    /\ fn_in.model = "FunnelForMultipleChoice"
    /\ ~fn_in.input_ids
    /\ fn_out.returned
    /\ fn_out.value.error = "AttributeError"

\* a direct pool_tensor call has ended
DirectPoolEnded == fn_in # None /\ fn_in.op = "pool_tensor" /\ fn_out.returned

\* the encoder of the model pools in some block: it has a block after block 0
\* and the input is longer than the pooling threshold
EncoderPools ==
    /\ num_blocks >= 2
    /\ seq_len.encoder > (IF config.separate_cls THEN 2 ELSE 1)

\* C14 as stated: with a pooling_type other than 'mean', 'max', 'min' the
\* encoder never returns a hidden state, for every input length and block
\* configuration, and every direct pool_tensor call with such a mode ends in
\* NotImplementedError.
C14_AlwaysNotImplemented ==
    /\ config # None => pc \notin {"decoder", "decoder_layer", "done"}
    /\ (DirectPoolEnded /\ fn_in.mode \notin supported_modes) =>
           fn_out.value.error = "NotImplementedError"

\* C14 amended: with such a pooling_type the encoder pass ends in
\* NotImplementedError on entering block 1 exactly when it has at least two
\* blocks and the input is longer than the pooling threshold (1, or 2 under
\* separate_cls); otherwise no block pools and the encoder returns a hidden
\* state of the input's length.  A direct pool_tensor call ends in
\* NotImplementedError exactly when it is given a tensor and such a mode; given
\* None it returns None whatever the mode.
C14_NotImplementedWhenPooling ==
    /\ (config # None /\ pc # "idle") =>
          /\ EncoderPools =>
                \/ pc \in {"block", "layer"} /\ block_index = 0
                \/ pc \in {"block", "NotImplementedError"} /\ block_index = 1
          /\ ~EncoderPools =>
                /\ pc # "NotImplementedError"
                /\ pc \in {"decoder", "decoder_layer", "done"} =>
                      Len(all_hidden_states[Len(all_hidden_states)]) = seq_len.encoder
    /\ DirectPoolEnded =>
          /\ fn_out.value.error = "NotImplementedError" <=>
                (fn_in.tensor # None /\ fn_in.mode \notin supported_modes)
          /\ fn_in.tensor = None => (fn_out.value.error = "None" /\ fn_out.value.result = None)

\* C14 witness: a pass over 3 positions with pooling_type 'Mean' ended in
\* NotImplementedError on entering block 1
C14_Witness ==
    /\ config # None
    /\ pc = "NotImplementedError"
    /\ config.pooling_type = "Mean"
    /\ ~config.pool_q_only
    /\ seq_len.encoder = 3
    /\ block_index = 1
    /\ pooling_mult.encoder = 2

\* call p did not overlap any other call: each other call is not started, had
\* returned when p started, or started after p returned
RanInSequence(p) ==
    \A q \in Passes \ {p} :
        \/ passes[q].pc = "idle"
        \/ q \in passes[p].after
        \/ p \in passes[q].after

\* the loss the claim assigns to a call from the call alone
LossOfCall(num_labels, labels) ==
    IF num_labels = 1 THEN "MSELoss"
    ELSE IF labels = "int" THEN "CrossEntropyLoss"
    ELSE "BCEWithLogitsLoss"

\* C15 as stated: in a sequence of forward calls with labels on one model whose
\* problem_type starts unset, each call computes mean-squared error when
\* num_labels = 1, cross-entropy when num_labels > 1 with integer labels, and
\* binary cross-entropy with logits otherwise, whatever the earlier calls were.
C15_LossDependsOnCallOnly ==
    \A p \in Passes :
        (passes[p].pc = "done" /\ passes[p].labels # "none" /\ RanInSequence(p)) =>
            passes[p].loss = LossOfCall(config.num_labels, passes[p].labels)

\* C15 witness: on a model with two labels a call with integer labels returned,
\* then a call with float labels ran and computed cross-entropy
C15_Witness ==
    /\ config.num_labels = 2
    /\ passes[1].pc = "done" /\ passes[1].labels = "int"
    /\ passes[1].loss = "CrossEntropyLoss"
    /\ passes[2].pc = "done" /\ passes[2].labels = "float"
    /\ passes[2].after = {1}
    /\ passes[2].loss = "CrossEntropyLoss"
    /\ config.problem_type = "single_label_classification"

QALossReturned == fn_out.returned /\ fn_in.op = "question_answering_loss"

\* what C16 says of one tensor of positions: a position below 0 or at or
\* beyond sequence_length becomes the ignored index and enters no loss term;
\* a position inside stays as it is and enters the loss with itself as target
OutsideIgnored(positions, clamped, terms) ==
    \A b \in DOMAIN positions :
        IF positions[b] < 0 \/ positions[b] >= fn_in.sequence_length
        THEN /\ clamped[b] = fn_out.value.ignored_index
             /\ \A t \in terms : t[1] # b
        ELSE /\ clamped[b] = positions[b]
             /\ << b, positions[b] >> \in terms

\* C16 as stated: every start or end position outside the sequence (below 0,
\* or at or beyond sequence_length) maps to the ignored index and contributes
\* nothing to the loss, and every position inside is kept unchanged.
C16_OutsideIgnored ==
    QALossReturned =>
        /\ OutsideIgnored(fn_in.start_positions, fn_out.value.start_positions,
                          fn_out.value.start_terms)
        /\ OutsideIgnored(fn_in.end_positions, fn_out.value.end_positions,
                          fn_out.value.end_terms)

\* C16 witness: the start position -1 of a sequence of length 2 was clamped to
\* 0 and entered the loss as target 0; the end position 3 was ignored
C16_Witness ==
    /\ QALossReturned
    /\ fn_in.sequence_length = 2
    /\ fn_in.start_positions = << -1 >>
    /\ fn_in.end_positions = << 3 >>
    /\ fn_out.value.start_positions = << 0 >>
    /\ << 1, 0 >> \in fn_out.value.start_terms
    /\ fn_out.value.end_terms = {}

\* a matrix of `rows` rows with `cols` entries each
HasShape(mat, rows, cols) ==
    /\ Len(mat) = rows
    /\ \A i \in DOMAIN mat : Len(mat[i]) = cols

\* the attention inputs fit queries of length q_len and keys of length kv_len
InputsMatch(cfg, ai, q_len, kv_len) ==
    /\ Len(ai.token_type_mat) = Len(inputs.token_type_ids)
    /\ \A b \in DOMAIN ai.token_type_mat : HasShape(ai.token_type_mat[b], q_len, kv_len)
    /\ IF cfg.separate_cls THEN HasShape(ai.cls_mask, q_len, kv_len) ELSE ai.cls_mask = None
    /\ Len(ai.attention_mask) = kv_len
    /\ cfg.attention_type = "factorized" =>
          /\ Len(ai.position_embeds[1]) = q_len
          /\ Len(ai.position_embeds[2]) = q_len
          /\ Len(ai.position_embeds[3]) = kv_len
          /\ Len(ai.position_embeds[4]) = kv_len

\* C17: at every layer application of the encoder, for every configuration and
\* input length, token_type_mat has shape [batch, q_len, kv_len], cls_mask has
\* shape [q_len, kv_len], attention_mask has length kv_len and, in factorized
\* mode, phi and pi have q_len rows and psi and omega kv_len rows; under
\* pool_q_only this holds in the first layer of a pooled block (pooled query,
\* unpooled key) and again after post_attention_pooling.
C17_AttentionInputsMatch ==
    /\ (last_call # None /\ last_call.part = "encoder") =>
          InputsMatch(config, last_call.attention_inputs,
                      Len(last_call.query), Len(last_call.key))
    /\ (calls # << >> /\ calls[Len(calls)].op = "post_attention_pooling") =>
          InputsMatch(config, attention_inputs, Len(hidden), Len(hidden))

\* C17 witness: under pool_q_only the first layer of block 1 attended from 5
\* pooled queries over 9 unpooled keys, and post_attention_pooling has run
C17_Witness ==
    /\ last_call # None
    /\ last_call.part = "encoder"
    /\ config.pool_q_only
    /\ config.attention_type = "factorized"
    /\ last_call.block_index = 1
    /\ Len(last_call.query) = 5
    /\ Len(last_call.key) = 9
    /\ HasShape(last_call.attention_inputs.token_type_mat[1], 5, 9)
    /\ calls[Len(calls)].op = "post_attention_pooling"
    /\ Len(attention_inputs.attention_mask) = 5

PosPoolReturned == fn_out.returned /\ fn_in.op = "stride_pool_pos"

\* C18: without separate_cls stride_pool_pos returns the elements of pos_id at
\* the even indices 0, 2, 4, ...; with separate_cls it returns the class
\* position 1 - 2^block_index followed by every second element of pos_id[1:]
\* (of pos_id[1:-1] under truncate_seq); and the position ids of block b,
\* reached by b applications starting from 0..n-1, form an arithmetic
\* progression with common difference 2^b.
C18_StridePoolPos ==
    PosPoolReturned =>
        LET pos_id == fn_in.pos_id
            out == fn_out.value
            last == IF fn_in.cfg.truncate_seq THEN Len(pos_id) - 1 ELSE Len(pos_id)
            rest == IF last >= 2 THEN last - 1 ELSE 0
        IN /\ ~fn_in.cfg.separate_cls =>
                 /\ Len(out) = CeilDiv(Len(pos_id), 2)
                 /\ \A k \in 0..(Len(out) - 1) : out[k + 1] = pos_id[2 * k + 1]
           /\ fn_in.cfg.separate_cls =>
                 /\ Len(out) = 1 + CeilDiv(rest, 2)
                 /\ out[1] = 1 - Pow2(fn_in.block_index)
                 /\ \A k \in 0..(Len(out) - 2) : out[k + 2] = pos_id[2 * k + 2]
           /\ fn_in.from_len > 0 =>
                 \A k \in 1..(Len(out) - 1) : out[k + 1] - out[k] = Pow2(fn_in.block_index)

\* C18 witness: under separate_cls and truncate_seq the position ids
\* -1, 1, 3, 5, 7 of block 1 of an input of length 9 were pooled to -3, 1, 5
C18_Witness ==
    /\ PosPoolReturned
    /\ fn_in.cfg.separate_cls /\ fn_in.cfg.truncate_seq
    /\ fn_in.from_len = 9
    /\ fn_in.block_index = 2
    /\ fn_in.pos_id = << -1, 1, 3, 5, 7 >>
    /\ fn_out.value = << -3, 1, 5 >>

StridePoolReturned == fn_out.returned /\ fn_in.op = "stride_pool"

\* the indices C19 says are kept of an axis of length n, in order: 0, 2, 4, ...
\* without separate_cls; 0, 1, 3, 5, ... with it, never the last index n - 1
\* when truncate_seq is on too and n >= 2
KeptIndices(cfg, n) ==
    IF ~cfg.separate_cls THEN [k \in 1..CeilDiv(n, 2) |-> 2 * (k - 1)]
    ELSE LET top == IF cfg.truncate_seq /\ n >= 2 THEN n - 2 ELSE n - 1
             odd == {i \in 1..top : i % 2 = 1}
         IN << 0 >> \o [k \in 1..Cardinality(odd) |-> 2 * k - 1]

\* the axes of a call, counted from the front
AxesOf(arg) == {a % arg.ndim : a \in {arg.axes[k] : k \in DOMAIN arg.axes}}

\* C19: along the pooled axis of length n stride_pool keeps the input indices
\* 0, 2, 4, ... without separate_cls and 0, 1, 3, 5, ... with it (not the last
\* index n - 1 when truncate_seq is on too and n >= 2), so index 0 always
\* survives; a list of axes is applied one axis after another; a tuple or a
\* list of tensors is pooled element by element into the same container type;
\* None gives None.
C19_StridePoolIndices ==
    StridePoolReturned =>
        LET out == fn_out.value
            cfg == fn_in.cfg
        IN /\ out.container = fn_in.container
           /\ fn_in.container = "None" => out.value = None
           /\ (fn_in.container = "tensor" /\ fn_in.ndim = 1) =>
                 /\ out.value = KeptIndices(cfg, Len(fn_in.tensor))
                 /\ out.value[1] = 0
           /\ (fn_in.container = "tensor" /\ fn_in.ndim = 2) =>
                 LET rows == Len(fn_in.tensor)
                     cols == Len(fn_in.tensor[1])
                     kept_rows == IF 0 \in AxesOf(fn_in) THEN KeptIndices(cfg, rows)
                                  ELSE IndexVector(rows)
                     kept_cols == IF 1 \in AxesOf(fn_in) THEN KeptIndices(cfg, cols)
                                  ELSE IndexVector(cols)
                 IN /\ out.value = [i \in DOMAIN kept_rows |-> [j \in DOMAIN kept_cols |->
                                       << kept_rows[i], kept_cols[j] >>]]
                    /\ out.value[1][1] = << 0, 0 >>
           /\ fn_in.container \in {"tuple", "list"} =>
                 /\ Len(out.value) = Len(fn_in.tensor)
                 /\ \A i \in DOMAIN fn_in.tensor :
                       out.value[i] = KeptIndices(cfg, Len(fn_in.tensor[i]))

\* C19 witness: a 4 x 5 matrix pooled along the axes [1, 2] under separate_cls
\* and truncate_seq keeps rows 0, 1 and columns 0, 1, 3
C19_Witness ==
    /\ StridePoolReturned
    /\ fn_in.cfg.separate_cls /\ fn_in.cfg.truncate_seq
    /\ fn_in.ndim = 2
    /\ fn_in.axes = << 1, 2 >>
    /\ Len(fn_in.tensor) = 4 /\ Len(fn_in.tensor[1]) = 5
    /\ fn_out.value.value = << << << 0, 0 >>, << 0, 1 >>, << 0, 3 >> >>,
                               << << 1, 0 >>, << 1, 1 >>, << 1, 3 >> >> >>

PoolContainerEnded == fn_out.returned /\ fn_in.op = "pool_tensor" /\ fn_in.tensor # << >>

\* C20 (as the specification states it): pool_tensor called with a non-empty
\* tuple or list of tensors terminates and returns a container of the same
\* type whose i-th element is pool_tensor applied to the i-th input element.
C20_ContainerPooledByElement ==
    PoolContainerEnded =>
        /\ fn_out.value.error = "None"
        /\ fn_out.value.result.container = fn_in.container
        /\ fn_out.value.result.items =
               [i \in DOMAIN fn_in.tensor |->
                   pool_tensor(fn_in.cfg, fn_in.tensor[i], fn_in.mode, fn_in.stride)]

\* C20 witness: the call with a tuple of two vectors has ended in
\* RecursionError
C20_Witness ==
    /\ PoolContainerEnded
    /\ fn_in.container = "tuple"
    /\ Len(fn_in.tensor) = 2
    /\ fn_out.value.error = "RecursionError"

\* the decoder has called upsample(final_hidden, 2 ** (num_blocks - 1),
\* first_block_hidden.shape[1], separate_cls, truncate_seq)
Upsampled == pc \in {"decoder_layer", "done"}

\* the encoder's final hidden state, the x of the upsample call
final_hidden == all_hidden_states[Len(all_hidden_states)]

\* C21: upsample(x, stride, target_len) returns x unchanged for stride 1; for
\* stride s > 1 under separate_cls output[0] = x[0] and output[j] =
\* x[1 + floor((j - 1) / s)] for 1 <= j < target_len, with zeros only in the
\* positions the truncate_seq padding fills (those past the repeated tokens);
\* without separate_cls output[j] = x[floor(j / s)] for 0 <= j < target_len.
C21_UpsampleIndices ==
    Upsampled =>
        LET x == final_hidden
            s == Pow2(num_blocks - 1)
            target_len == Len(all_hidden_states[config.block_sizes[1] + 1])
            output == upsampled_hidden
        IN /\ s = 1 => output = x
           /\ \A k \in DOMAIN x : x[k] # ZeroPosition
           /\ (s > 1 /\ config.separate_cls) =>
                 /\ Len(output) = target_len
                 /\ output[1] = x[1]
                 /\ \A j \in 1..(target_len - 1) :
                       LET src == 1 + ((j - 1) \div s)
                       IN IF src < Len(x) THEN output[j + 1] = x[src + 1]
                          ELSE /\ config.truncate_seq
                               /\ (j - 1) - (Len(x) - 1) * s < s - 1
                               /\ output[j + 1] = ZeroPosition
           /\ (s > 1 /\ ~config.separate_cls) =>
                 /\ Len(output) = target_len
                 /\ \A j \in 0..(target_len - 1) :
                       /\ j \div s < Len(x)
                       /\ output[j + 1] = x[(j \div s) + 1]

\* C21 witness: three blocks under separate_cls and truncate_seq, length 8: the
\* class token, four copies of the one pooled token and three zero positions
C21_Witness ==
    /\ Upsampled
    /\ num_blocks = 3
    /\ config.separate_cls /\ config.truncate_seq
    /\ seq_len.encoder = 8
    /\ Len(final_hidden) = 2
    /\ upsampled_hidden[1] = final_hidden[1]
    /\ \A j \in 2..5 : upsampled_hidden[j] = final_hidden[2]
    /\ \A j \in 6..8 : upsampled_hidden[j] = ZeroPosition

\* the layer applications of the pass, in order: the k-th one produced entry k
\* of the encoder's hidden_states
LayerApplications == SelectSeq(calls, LAMBDA c : c.op = "layer")

\* the number of the last layer application of block 0
LastOfBlock0 ==
    Cardinality({k \in DOMAIN LayerApplications : LayerApplications[k].block = 0})

\* C22 (as the specification states it): for every configuration of
\* block_sizes and block_repeats (all >= 1), the hidden state FunnelModel
\* passes to the decoder as first_block_hidden is the unpooled hidden state
\* produced by the last layer application of block 0, and it has the full
\* input sequence length.
C22_FirstBlockHiddenIsBlock0Output ==
    Upsampled =>
        /\ first_block_index(config) = LastOfBlock0
        /\ Len(all_hidden_states[first_block_index(config) + 1]) = seq_len.encoder
        /\ LayerApplications[first_block_index(config)].block = 0

\* C22 witness: with block_sizes = [1, 1] and block_repeats = [2, 2] block 0
\* applies its layer twice, and the decoder was given the output of the first
\* application
C22_Witness ==
    /\ Upsampled
    /\ config.block_sizes = << 1, 1 >>
    /\ config.block_repeats = << 2, 2 >>
    /\ LastOfBlock0 = 2
    /\ first_block_index(config) = 1
    /\ seq_len.encoder = 4

\* a layer of a relative-shift model has just been applied
RelShiftCall ==
    /\ config # None
    /\ config.attention_type = "relative_shift"
    /\ last_call # None

\* the relative positional attention of that layer application
CallAttention ==
    relative_positional_attention(last_call.attention_inputs.position_embeds,
                                  last_call.block_index,
                                  Len(last_call.query), Len(last_call.key))

\* the length of the input sequence of the part (encoder, decoder) the call is in
CallSeqLen == IF last_call.part = "encoder" THEN seq_len.encoder ELSE seq_len.decoder

\* the position ids get_position_embeds computed for the block of the call
CallPos == block_pos(config, CallSeqLen, last_call.block_index)

GatheredRows(b, shift) == attention_inputs.position_embeds[b][shift]

\* C24 (as the specification states it): in relative-shift mode, for every
\* input length >= 1, every number of blocks and every separate_cls /
\* truncate_seq setting, each row index rel_pos + 2 * seq_len that
\* get_position_embeds gathers from the sinusoid bank lies inside the bank
\* (0 .. 4 * seq_len - 1).
C24_GatherInsideBank ==
    RelShiftBuilt =>
        \A b \in 1..num_blocks : \A shift \in {1, 2} :
            \A t \in DOMAIN GatheredRows(b, shift) : GatheredRows(b, shift)[t] # << >>

\* C24 witness: one input position and two blocks: the self-attention offsets
\* of block 1 are 2 and 0, and row 2 + 2 * 1 = 4 is outside the bank of 4 rows
C24_Witness ==
    /\ RelShiftBuilt
    /\ num_blocks = 2
    /\ seq_len.encoder = 1
    /\ pc = "layer"
    /\ relative_pos(block_pos(config, 1, 1), 2, None, 1) = << 2, 0 >>
    /\ GatheredRows(2, 1) = << << >>, << 0 >> >>

\* a self-attention call of a relative-shift model: as many queries as keys,
\* and as many as the block has position ids
SelfAttentionCall ==
    /\ RelShiftCall
    /\ Len(last_call.query) = Len(last_call.key)
    /\ Len(CallPos) = Len(last_call.query)

\* C25: in relative-shift mode, for every block b and a self-attention call
\* in it (shift 1, q_len = context_len = number of block-b positions),
\* relative_pos(pos_b, 2^b) followed by _relative_shift_gather makes the
\* positional score at (query i, key j) the one of the sinusoid of relative
\* distance pos_b[i] - pos_b[j], for all i, j; the relative_pos output is the
\* strictly descending sequence from its max distance to its min distance
\* inclusive in steps of 2^b.
C25_SelfAttentionDistance ==
    SelfAttentionCall =>
        LET pos == CallPos
            len == Len(pos)
            stride == Pow2(last_call.block_index)
            rel == relative_pos(pos, stride, None, 1)
            max_dist == len * stride
            min_dist == pos[1] - pos[len]
            scores == CallAttention.positional_attn
        IN /\ CallAttention.shift = 1
           /\ Len(scores) = len
           /\ \A i \in 1..len :
                 /\ Len(scores[i]) = len
                 /\ \A j \in 1..len :
                       scores[i][j] = [query |-> i - 1, r |-> << pos[i] - pos[j] >>]
           /\ rel[1] = max_dist
           /\ rel[Len(rel)] = min_dist
           /\ \A k \in 1..(Len(rel) - 1) : rel[k + 1] = rel[k] - stride

\* C25 witness: two input positions under separate_cls reach block 2 with the
\* position ids -3, 1: the score of (query 1, key 0) needs the sinusoid of
\* distance 4, which the bank of offsets -4 .. 3 does not hold, while that of
\* (query 0, key 1) is the one of distance -4
C25_Witness ==
    /\ SelfAttentionCall
    /\ last_call.part = "encoder"
    /\ last_call.block_index = 2
    /\ seq_len.encoder = 2
    /\ CallPos = << -3, 1 >>
    /\ CallAttention.positional_attn[2][1] = [query |-> 1, r |-> << >>]
    /\ CallAttention.positional_attn[1][2] = [query |-> 0, r |-> << -4 >>]

\* the first layer of a pooled block under pool_q_only: pooled queries against
\* the unpooled keys
PooledQueryCall ==
    /\ RelShiftCall
    /\ Len(last_call.query) # Len(last_call.key)

\* C26: in relative-shift mode with pool_q_only, for the first layer of every
\* pooled block b >= 1 (shift 2), relative_pos(pos_{b-1}, 2^(b-1), pooled_pos_b,
\* shift = 2) followed by _relative_shift_gather makes the positional score at
\* (pooled query i, unpooled key j) the one of the sinusoid of relative
\* distance pooled_pos_b[i] - pos_{b-1}[j], for all i < q_len, j < context_len.
C26_PooledQueryDistance ==
    PooledQueryCall =>
        LET b == last_call.block_index
            pos == block_pos(config, CallSeqLen, b - 1)
            pooled_pos == CallPos
            q_len == Len(last_call.query)
            context_len == Len(last_call.key)
            scores == CallAttention.positional_attn
        IN /\ config.pool_q_only
           /\ last_call.part = "encoder"
           /\ b >= 1
           /\ CallAttention.shift = 2
           /\ Len(pooled_pos) = q_len
           /\ Len(pos) = context_len
           /\ Len(scores) = q_len
           /\ \A i \in 1..q_len :
                 /\ Len(scores[i]) = context_len
                 /\ \A j \in 1..context_len :
                       scores[i][j] = [query |-> i - 1, r |-> << pooled_pos[i] - pos[j] >>]

\* C26 witness: block 2 under separate_cls pools the position ids -1, 1, 3, 5,
\* 7 to -3, 1, 5: the score of (query 0, key 4) is the one of distance -10,
\* that of (query 2, key 0) of distance 6
C26_Witness ==
    /\ PooledQueryCall
    /\ last_call.block_index = 2
    /\ block_pos(config, CallSeqLen, 1) = << -1, 1, 3, 5, 7 >>
    /\ CallPos = << -3, 1, 5 >>
    /\ CallAttention.positional_attn[1][5] = [query |-> 0, r |-> << -10 >>]
    /\ CallAttention.positional_attn[3][1] = [query |-> 2, r |-> << 6 >>]

PoolStepReturned == fn_out.returned /\ fn_in.op = "pooling_step"

\* C27: for every sequence length n >= 1 and every setting of separate_cls and
\* truncate_seq, one pooling step yields the same number of positions through
\* all three routines: pool_tensor (stride 2), stride_pool along the pooled
\* axis and stride_pool_pos.
C27_SameLength ==
    PoolStepReturned =>
        /\ Len(fn_out.value.pool_tensor) = Len(fn_out.value.stride_pool)
        /\ Len(fn_out.value.stride_pool) = Len(fn_out.value.stride_pool_pos)
        /\ Len(fn_out.value.pool_tensor) >= 1

\* C27 witness: 6 positions under separate_cls and truncate_seq give 3
\* positions through each routine
C27_Witness ==
    /\ PoolStepReturned
    /\ fn_in.cfg.separate_cls /\ fn_in.cfg.truncate_seq
    /\ fn_in.n = 6
    /\ Len(fn_out.value.pool_tensor) = 3
    /\ fn_out.value.stride_pool = << 0, 1, 3 >>
    /\ Len(fn_out.value.stride_pool_pos) = 3

\* the first (smallest) input index of a pooling window
FirstIndex(window) == CHOOSE x \in window : \A y \in window : x <= y

\* C29: for every sequence length and every separate_cls / truncate_seq
\* setting, the input index stride_pool keeps for output position i is the
\* first input index of the window pool_tensor (stride 2) reduces into output
\* position i, and so are the position ids stride_pool_pos keeps (next to the
\* class token's); with separate_cls, window 0 contains only the class token.
C29_KeptIndexIsWindowStart ==
    PoolStepReturned =>
        LET windows == fn_out.value.windows
            kept == fn_out.value.stride_pool
            pos == fn_out.value.stride_pool_pos
        IN /\ Len(kept) = Len(windows)
           /\ \A i \in DOMAIN kept :
                 /\ windows[i] # {}
                 /\ kept[i] = FirstIndex(windows[i])
                 /\ (i > 1 \/ ~fn_in.cfg.separate_cls) => pos[i] = kept[i]
           /\ fn_in.cfg.separate_cls => windows[1] = {0}

\* C29 witness: 7 positions under separate_cls: the windows {0}, {1, 2},
\* {3, 4}, {5, 6} and the kept indices 0, 1, 3, 5
C29_Witness ==
    /\ PoolStepReturned
    /\ fn_in.cfg.separate_cls /\ ~fn_in.cfg.truncate_seq
    /\ fn_in.n = 7
    /\ fn_out.value.windows = << {0}, {1, 2}, {3, 4}, {5, 6} >>
    /\ fn_out.value.stride_pool = << 0, 1, 3, 5 >>

\* C28 (as the specification states it): in relative-shift mode, for every
\* input length, number of blocks and separate_cls / truncate_seq setting, the
\* number of positions in block b's position-id vector (b unconditional
\* applications of stride_pool_pos in get_position_embeds) equals the hidden
\* sequence length the encoder has while block b's layers run, also in blocks
\* where the encoder skips pooling because the sequence is already short.
C28_PosLenIsHiddenLen ==
    (RelShiftCall /\ last_call.part = "encoder") =>
        Len(CallPos) = Len(last_call.query)

\* C28 witness: two positions under separate_cls and truncate_seq: block 1
\* skips pooling and runs on 2 positions, its position-id vector has 1, and the
\* positional scores of its layer have 1 column for the 2 keys
C28_Witness ==
    /\ RelShiftCall
    /\ last_call.part = "encoder"
    /\ last_call.block_index = 1
    /\ config.separate_cls /\ config.truncate_seq
    /\ seq_len.encoder = 2
    /\ Len(last_call.query) = 2 /\ Len(last_call.key) = 2
    /\ CallPos = << -1 >>
    /\ CallAttention.max_rel_len = 2
    /\ Len(CallAttention.positional_attn) = 2
    /\ Len(CallAttention.positional_attn[1]) = 1

\* the encoder is running or has just ended
InEncoder == config # None /\ pc \in {"block", "layer", "decoder"}

\* the next layer application is the first of a pooled block
FirstLayerPending ==
    pc = "layer" /\ do_pooling_at(repeat_index, layer_index, pooling_flag)

\* the keys of the next layer application
NextKeys == IF FirstLayerPending /\ ~config.pool_q_only THEN pooled_hidden ELSE hidden

\* C30: for a 0/1 attention mask, after every pooling step (in
\* pre_attention_pooling when queries and keys are pooled, in
\* post_attention_pooling under pool_q_only) the pooled mask entry at position
\* i is 1 exactly when every original mask entry in pooling window i is 1; the
\* class token's entry at position 0 is preserved under separate_cls; during
\* the first layer of a pool_q_only block the mask is still the unpooled one.
C30_MaskIsMinOverWindow ==
    InEncoder =>
        LET mask == attention_inputs.attention_mask
        IN /\ Len(mask) = Len(NextKeys)
           /\ \A i \in DOMAIN mask :
                 /\ mask[i] \in {0, 1}
                 /\ mask[i] = 1 <=> \A k \in NextKeys[i] : inputs.attention_mask[k + 1] = 1
           /\ config.separate_cls => mask[1] = inputs.attention_mask[1]
           /\ (FirstLayerPending /\ config.pool_q_only) =>
                 /\ Len(mask) = Len(hidden)
                 /\ Len(pooled_hidden) < Len(mask)
           /\ (last_call # None /\ last_call.part = "encoder") =>
                 Len(last_call.attention_inputs.attention_mask) = Len(last_call.key)

\* C30 witness: the mask 1, 1, 0, 1, 1 after the pooling of block 1 (windows
\* {0, 1}, {2, 3}, {4}) is 1, 0, 1
C30_Witness ==
    /\ InEncoder
    /\ ~config.separate_cls
    /\ inputs.attention_mask = << 1, 1, 0, 1, 1 >>
    /\ block_index = 1
    /\ hidden = << {0, 1}, {2, 3}, {4} >>
    /\ attention_inputs.attention_mask = << 1, 0, 1 >>

====
